---- MODULE Spec2Model ----
(***************************************************************************)
(* HabitTracker-MCP: the streak engine (src/domain/streak.rs), the         *)
(* frequency type (src/domain/types.rs), the habit_log tool                *)
(* (src/tools/log.rs) and the SQLite rows they read and write.             *)
(*                                                                         *)
(* A calendar date (chrono::NaiveDate) is the number of days since Monday  *)
(* 2024-01-01, so date - date is integer subtraction and d % 7 is          *)
(* weekday().num_days_from_monday().  A HabitEntry is represented by its   *)
(* completed_at date: no other field is read by the streak code.           *)
(* An f64 is represented by an exact fraction [num, den].                  *)
(***************************************************************************)
EXTENDS Integers, Sequences, FiniteSets, TLC, Bags

VARIABLES today, habit, habit_entries, habit_streaks, call, streak, response,
          habit_value, result, invocations,
          tables, schema_version, applied, habits,
          stdin, lines_read, line, stdout, initialized

\* The database file: its schema and the rows of table habits
storage_vars == <<tables, schema_version, applied, habits>>

\* The MCP server and its standard input and output
server_vars == <<stdin, lines_read, line, stdout, initialized>>

vars == <<today, habit, habit_entries, habit_streaks, call, streak, response,
          habit_value, result, invocations, storage_vars, server_vars>>

(***************************************************************************)
(* The schema (src/storage/migrations.rs)                                  *)
(*                                                                         *)
(* tables          the names in sqlite_master: tables and indexes          *)
(* schema_version  the rows of table schema_version (version is its        *)
(*                 PRIMARY KEY, so the rows are a set of versions)         *)
(* applied         how many times migration_v1 has run (it logs "Applied   *)
(*                 migration v1" each time)                                *)
(* habits          the rows of table habits by id, in the runs that list   *)
(*                 and delete habits                                       *)
(***************************************************************************)
CURRENT_VERSION == 1

\* The tables and indexes that migration_v1 and create_indexes_v1 create
SchemaV1 ==
    {"habits", "habit_entries", "habit_streaks",
     "idx_habit_entries_habit_completed", "idx_habit_entries_completed_at",
     "idx_habits_category", "idx_habits_active", "idx_habit_entries_unique"}

\* The database as SqliteStorage::new leaves a new file, with no habit
OpenedStorage ==
    /\ tables = SchemaV1 \cup {"schema_version"}
    /\ schema_version = {CURRENT_VERSION}
    /\ applied = 1
    /\ habits = <<>>

\* No MCP server is reading: the operations are called directly.
NoServer ==
    /\ stdin = <<>>
    /\ lines_read = 0
    /\ line = {}
    /\ stdout = <<>>
    /\ initialized = FALSE

(***************************************************************************)
(* Bounds of the model.                                                    *)
(***************************************************************************)
\* Number of consecutive calendar days an entry can carry.
NumDays == 7
\* Longest entry list handed directly to calculate_from_entries.
MaxLen == 3

\* First calendar day an entry can carry: Friday 2024-12-27, three days
\* before Monday 2024-12-30 (day 52 * 7), the start of ISO week 1 of 2025.
FirstDay == 52 * 7 - 3
\* The clock of a database run starts on Tuesday 2024-12-31.
StartDay == FirstDay + 4
\* Last reading of the clock: four days after the last entry day, the
\* Monday of the week after (2025-01-06 for NumDays = 7).
LastToday == FirstDay + NumDays + 3

\* Option<T>: None is the empty set, Some(x) the set {x}
None == {}
Some(x) == {x}
unwrap(o) == CHOOSE x \in o : TRUE

Days == FirstDay..(FirstDay + NumDays - 1)

Max(a, b) == IF a >= b THEN a ELSE b

(***************************************************************************)
(* chrono calendar, for 2021-01-04 .. 2027-01-03 (days -1092 .. 1098).     *)
(***************************************************************************)
Mon == 0
Tue == 1
Wed == 2
Thu == 3
Fri == 4
Sat == 5
Sun == 6

\* Datelike::weekday(), as num_days_from_monday
weekday(d) == d % 7

\* matches!(d.weekday(), Weekday::Sat | Weekday::Sun)
is_weekend(d) == weekday(d) = Sat \/ weekday(d) = Sun

\* Datelike::year(): the calendar year of the date
year(d) ==
    IF d < 0 - 730 THEN 2021
    ELSE IF d < 0 - 365 THEN 2022
    ELSE IF d < 0 THEN 2023
    ELSE IF d <= 365 THEN 2024
    ELSE IF d <= 730 THEN 2025
    ELSE IF d <= 1095 THEN 2026
    ELSE 2027

\* Datelike::iso_week().week(): 2021 to 2025 have 52 ISO weeks, 2026 has
\* 53; ISO week 1 of 2024 starts on day 0.
iso_week(d) ==
    LET w == d \div 7 IN
    IF w < 0 - 104 THEN w + 157
    ELSE IF w < 0 - 52 THEN w + 105
    ELSE IF w < 0 THEN w + 53
    ELSE IF w < 52 THEN w + 1
    ELSE IF w < 104 THEN w - 51
    ELSE w - 103

(***************************************************************************)
(* Frequency (src/domain/types.rs)                                         *)
(***************************************************************************)
Daily == [kind |-> "Daily", n |-> 0, days |-> <<>>]
Weekly(t) == [kind |-> "Weekly", n |-> t, days |-> <<>>]
Weekdays == [kind |-> "Weekdays", n |-> 0, days |-> <<>>]
Weekends == [kind |-> "Weekends", n |-> 0, days |-> <<>>]
Custom(ds) == [kind |-> "Custom", n |-> 0, days |-> ds]
Interval(k) == [kind |-> "Interval", n |-> k, days |-> <<>>]

\* Vec<Weekday>::contains
contains(weekdays, wd) == \E i \in 1..Len(weekdays) : weekdays[i] = wd

\* The valid frequencies the model runs with.
Frequencies ==
    { Daily, Weekly(1), Weekly(2), Weekly(3), Weekdays, Weekends,
      Custom(<<Mon, Wed, Fri>>), Custom(<<Mon>>), Interval(2), Interval(3) }

\* is_scheduled_for_date that takes Friday for a day of the weekend
is_scheduled_for_date_friday(frequency, date) ==
    CASE frequency.kind = "Weekdays" -> weekday(date) < Fri
      [] frequency.kind = "Weekends" -> weekday(date) >= Fri
      [] frequency.kind = "Custom" -> contains(frequency.days, weekday(date))
      [] OTHER -> TRUE

\* Frequency::is_scheduled_for_date
is_scheduled_for_date(frequency, date) ==
    CASE frequency.kind = "Daily" -> TRUE
      [] frequency.kind = "Weekdays" -> ~(weekday(date) = Sat \/ weekday(date) = Sun)
      [] frequency.kind = "Weekends" -> weekday(date) = Sat \/ weekday(date) = Sun
      [] frequency.kind = "Custom" -> contains(frequency.days, weekday(date))
      [] frequency.kind = "Weekly" -> TRUE
      [] frequency.kind = "Interval" -> TRUE

\* Frequency::validate: the largest accepted times-per-week, number of
\* custom days and interval
MaxTimesPerWeek == 7
MaxCustomDays == 7
MaxIntervalDays == 365

\* Frequency::validate without the upper limits
validate_no_upper_limit(frequency) ==
    CASE frequency.kind = "Weekly" ->
            IF frequency.n = 0 THEN "InvalidFrequency" ELSE "Ok"
      [] frequency.kind = "Custom" ->
            IF Len(frequency.days) = 0 THEN "InvalidFrequency" ELSE "Ok"
      [] frequency.kind = "Interval" ->
            IF frequency.n = 0 THEN "InvalidFrequency" ELSE "Ok"
      [] OTHER -> "Ok"

\* Frequency::validate: "Ok" for Ok(()), else the DomainError variant
validate(frequency) ==
    CASE frequency.kind = "Weekly" ->
            IF frequency.n = 0 \/ frequency.n > MaxTimesPerWeek
            THEN "InvalidFrequency" ELSE "Ok"
      [] frequency.kind = "Custom" ->
            IF Len(frequency.days) = 0 THEN "InvalidFrequency"
            ELSE IF Len(frequency.days) > MaxCustomDays THEN "InvalidFrequency"
            ELSE "Ok"
      [] frequency.kind = "Interval" ->
            IF frequency.n = 0 THEN "InvalidFrequency"
            ELSE IF frequency.n > MaxIntervalDays THEN "InvalidFrequency"
            ELSE "Ok"
      [] OTHER -> "Ok"

(***************************************************************************)
(* Entry lists                                                             *)
(***************************************************************************)
\* entries.iter().any(|e| e.completed_at == d)
has_entry(entries, d) == \E i \in 1..Len(entries) : entries[i] = d

\* entries.iter().filter(|e| lo <= e.completed_at <= hi).count()
count_between(entries, lo, hi) ==
    Cardinality({ i \in 1..Len(entries) : entries[i] >= lo /\ entries[i] <= hi })

\* The place of s[j] after a stable sort, newest first: behind every later
\* date and behind the equal dates that come before it in s
place_desc(s, j) ==
    1 + Cardinality({ k \in 1..Len(s) : s[k] > s[j] \/ (s[k] = s[j] /\ k < j) })

\* sort_by(|a, b| b.completed_at.cmp(&a.completed_at)): newest first
sort_desc(s) ==
    LET place == [j \in 1..Len(s) |-> place_desc(s, j)]
    IN [i \in 1..Len(s) |-> s[CHOOSE j \in 1..Len(s) : place[j] = i]]

\* sort_by(|a, b| a.completed_at.cmp(&b.completed_at)): oldest first
sort_asc(s) ==
    LET d == sort_desc(s) IN [i \in 1..Len(s) |-> d[Len(s) + 1 - i]]

(***************************************************************************)
(* Streak::calculate_current_streak (src/domain/streak.rs:158-369)         *)
(***************************************************************************)
\* `for _ in 0..365` of the per-day and interval walks
DayLoopLimit == 365
\* `for week_offset in 0..52` of the weekly walk
WeekLoopLimit == 52
\* `for _ in 0..7` of the custom-day anchor search
CustomLookback == 7

\* Daily and Interval counting loop: an entry on checking_date counts and
\* moves checking_date back by step; the first date without entry stops it.
RECURSIVE count_back(_, _, _, _)
count_back(entries, checking_date, step, iterations) ==
    IF iterations = 0 THEN 0
    ELSE IF has_entry(entries, checking_date)
         THEN 1 + count_back(entries, checking_date - step, step, iterations - 1)
         ELSE 0

\* current_streak_daily that starts at today also when today has no entry
current_streak_daily_from_today(entries, now) ==
    count_back(entries, now, 1, DayLoopLimit)

current_streak_daily(entries, now) ==
    LET has_today == has_entry(entries, now)
        checking_date == IF ~has_today THEN now - 1 ELSE now
    IN count_back(entries, checking_date, 1, DayLoopLimit)

\* Weekly loop over week_offset: counts the leading weeks that have at
\* least times_per_week entries.
\* weekly_weeks that asks for more than times_per_week entries
RECURSIVE weekly_weeks_strict(_, _, _, _)
weekly_weeks_strict(entries, times_per_week, current_week_start, week_offset) ==
    IF week_offset >= WeekLoopLimit THEN 0
    ELSE LET week_start == current_week_start - 7 * week_offset
         IN IF count_between(entries, week_start, week_start + 6) > times_per_week
            THEN 1 + weekly_weeks_strict(entries, times_per_week, current_week_start,
                                         week_offset + 1)
            ELSE 0

\* weekly_weeks that goes on for as long as the weeks have entries
RECURSIVE weekly_weeks_no_limit(_, _, _, _)
weekly_weeks_no_limit(entries, times_per_week, current_week_start, week_offset) ==
    LET week_start == current_week_start - 7 * week_offset
    IN IF count_between(entries, week_start, week_start + 6) >= times_per_week
       THEN 1 + weekly_weeks_no_limit(entries, times_per_week, current_week_start,
                                      week_offset + 1)
       ELSE 0

RECURSIVE weekly_weeks(_, _, _, _)
weekly_weeks(entries, times_per_week, current_week_start, week_offset) ==
    IF week_offset >= WeekLoopLimit THEN 0
    ELSE LET week_start == current_week_start - 7 * week_offset
             week_end == week_start + 6
             completions_this_week == count_between(entries, week_start, week_end)
         IN IF completions_this_week >= times_per_week
            THEN 1 + weekly_weeks(entries, times_per_week, current_week_start,
                                  week_offset + 1)
            ELSE 0

current_streak_weekly(entries, times_per_week, now) ==
    LET current_week_start == now - weekday(now)
    IN weekly_weeks(entries, times_per_week, current_week_start, 0)

\* while weekend: checking_date -= 1
RECURSIVE back_to_weekday(_)
back_to_weekday(d) == IF is_weekend(d) THEN back_to_weekday(d - 1) ELSE d

\* while not weekend: checking_date -= 1
RECURSIVE back_to_weekend(_)
back_to_weekend(d) == IF ~is_weekend(d) THEN back_to_weekend(d - 1) ELSE d

\* Weekdays counting loop: a weekend day uses up one iteration.
RECURSIVE walk_weekdays(_, _, _)
walk_weekdays(entries, checking_date, iterations) ==
    IF iterations = 0 THEN 0
    ELSE IF is_weekend(checking_date)
         THEN walk_weekdays(entries, checking_date - 1, iterations - 1)
    ELSE IF has_entry(entries, checking_date)
         THEN 1 + walk_weekdays(entries, checking_date - 1, iterations - 1)
    ELSE 0

current_streak_weekdays(entries, now) ==
    LET c1 == IF is_weekend(now) THEN back_to_weekday(now) ELSE now
        c2 == IF ~is_weekend(now) /\ ~has_entry(entries, now)
              THEN back_to_weekday(c1 - 1)
              ELSE c1
    IN walk_weekdays(entries, c2, DayLoopLimit)

\* Weekends counting loop: a weekday uses up one iteration.
RECURSIVE walk_weekends(_, _, _)
walk_weekends(entries, checking_date, iterations) ==
    IF iterations = 0 THEN 0
    ELSE IF ~is_weekend(checking_date)
         THEN walk_weekends(entries, checking_date - 1, iterations - 1)
    ELSE IF has_entry(entries, checking_date)
         THEN 1 + walk_weekends(entries, checking_date - 1, iterations - 1)
    ELSE 0

current_streak_weekends(entries, now) ==
    LET c1 == IF ~is_weekend(now) THEN back_to_weekend(now) ELSE now
        c2 == IF is_weekend(now) /\ ~has_entry(entries, now)
              THEN back_to_weekend(c1 - 1)
              ELSE c1
    IN walk_weekends(entries, c2, DayLoopLimit)

\* for _ in 0..7 { checking_date -= 1; if target day { break } }
RECURSIVE custom_anchor(_, _, _)
custom_anchor(weekdays, checking_date, iterations) ==
    IF iterations = 0 THEN checking_date
    ELSE IF contains(weekdays, weekday(checking_date - 1))
         THEN checking_date - 1
         ELSE custom_anchor(weekdays, checking_date - 1, iterations - 1)

\* for _ in 0..7 { if target day { break }; checking_date -= 1 }
RECURSIVE custom_previous(_, _, _)
custom_previous(weekdays, checking_date, iterations) ==
    IF iterations = 0 THEN checking_date
    ELSE IF contains(weekdays, weekday(checking_date))
         THEN checking_date
         ELSE custom_previous(weekdays, checking_date - 1, iterations - 1)

\* Custom counting loop: a non-target day uses up one iteration.
RECURSIVE walk_custom(_, _, _, _)
walk_custom(entries, weekdays, checking_date, iterations) ==
    IF iterations = 0 THEN 0
    ELSE IF ~contains(weekdays, weekday(checking_date))
         THEN walk_custom(entries, weekdays, checking_date - 1, iterations - 1)
    ELSE IF has_entry(entries, checking_date)
         THEN 1 + walk_custom(entries, weekdays, checking_date - 1, iterations - 1)
    ELSE 0

current_streak_custom(entries, weekdays, now) ==
    LET c1 == IF ~contains(weekdays, weekday(now))
              THEN custom_anchor(weekdays, now, CustomLookback)
              ELSE now
        c2 == IF contains(weekdays, weekday(now)) /\ ~has_entry(entries, now)
              THEN custom_previous(weekdays, c1 - 1, CustomLookback)
              ELSE c1
    IN walk_custom(entries, weekdays, c2, DayLoopLimit)

\* for _ in 0..days_interval { if entry on checking_date { break };
\*                             checking_date -= 1 }
\* interval_anchor that does not look for the most recent entry
interval_anchor_today(entries, checking_date, iterations) == checking_date

RECURSIVE interval_anchor(_, _, _)
interval_anchor(entries, checking_date, iterations) ==
    IF iterations = 0 THEN checking_date
    ELSE IF has_entry(entries, checking_date)
         THEN checking_date
         ELSE interval_anchor(entries, checking_date - 1, iterations - 1)

\* entries is sorted newest first, so entries.first() is the latest entry
current_streak_interval(entries, days_interval, now) ==
    LET latest_entry == entries[1]
        days_since_latest == now - latest_entry
        \* Rust's % truncates; only its being zero is read
        on_cadence == IF days_since_latest >= 0
                      THEN days_since_latest % days_interval = 0
                      ELSE (0 - days_since_latest) % days_interval = 0
        checking_date ==
            IF on_cadence /\ ~has_entry(entries, now)
            THEN now - days_interval
            ELSE interval_anchor(entries, now, days_interval)
    IN count_back(entries, checking_date, days_interval, DayLoopLimit)

calculate_current_streak(entries, frequency, now) ==
    IF entries = <<>> THEN 0
    ELSE CASE frequency.kind = "Daily" -> current_streak_daily(entries, now)
           [] frequency.kind = "Weekly" ->
                current_streak_weekly(entries, frequency.n, now)
           [] frequency.kind = "Weekdays" -> current_streak_weekdays(entries, now)
           [] frequency.kind = "Weekends" -> current_streak_weekends(entries, now)
           [] frequency.kind = "Custom" ->
                current_streak_custom(entries, frequency.days, now)
           [] frequency.kind = "Interval" ->
                current_streak_interval(entries, frequency.n, now)

(***************************************************************************)
(* Streak::calculate_longest_streak (src/domain/streak.rs:372-548)         *)
(***************************************************************************)
\* while weekend: expected_date += 1
RECURSIVE skip_weekend(_)
skip_weekend(d) == IF is_weekend(d) THEN skip_weekend(d + 1) ELSE d

\* while not weekend: expected_date += 1
RECURSIVE skip_weekdays(_)
skip_weekdays(d) == IF ~is_weekend(d) THEN skip_weekdays(d + 1) ELSE d

\* while not a target weekday: expected_date += 1, giving up once it is
\* more than 7 days after last_date
RECURSIVE skip_to_custom(_, _, _)
skip_to_custom(weekdays, expected_date, last_date) ==
    IF contains(weekdays, weekday(expected_date)) THEN expected_date
    ELSE IF (expected_date + 1) - last_date > 7 THEN expected_date + 1
    ELSE skip_to_custom(weekdays, expected_date + 1, last_date)

\* The date the entry after last_date must carry to extend the run.
expected_date(frequency, last_date) ==
    CASE frequency.kind = "Daily" -> last_date + 1
      [] frequency.kind = "Weekdays" -> skip_weekend(last_date + 1)
      [] frequency.kind = "Weekends" -> skip_weekdays(last_date + 1)
      [] frequency.kind = "Custom" ->
            skip_to_custom(frequency.days, last_date + 1, last_date)
      [] frequency.kind = "Interval" -> last_date + frequency.n

\* for entry in sorted_entries.iter().skip(1): extend the running streak on
\* the expected date, else record it and restart at 1; the last running
\* streak is recorded after the loop.
RECURSIVE scan_entries(_, _, _, _, _, _)
scan_entries(sorted_entries, i, frequency, last_date, current_streak, longest_streak) ==
    IF i > Len(sorted_entries) THEN Max(longest_streak, current_streak)
    ELSE IF sorted_entries[i] = expected_date(frequency, last_date)
         THEN scan_entries(sorted_entries, i + 1, frequency, sorted_entries[i],
                           current_streak + 1, longest_streak)
         ELSE scan_entries(sorted_entries, i + 1, frequency, sorted_entries[i],
                           1, Max(longest_streak, current_streak))

\* year * 100 + iso week number
week_key(d) == year(d) * 100 + iso_week(d)

\* The HashMap week_key -> number of entries
weeks_map(sorted_entries) ==
    LET keys == { week_key(sorted_entries[i]) : i \in 1..Len(sorted_entries) }
    IN [k \in keys |->
          Cardinality({ i \in 1..Len(sorted_entries) : week_key(sorted_entries[i]) = k })]

\* week_counts.sort_by_key: the keys in ascending order
sorted_keys(keys) ==
    [i \in 1..Cardinality(keys) |->
        CHOOSE k \in keys : Cardinality({ o \in keys : o < k }) = i - 1]

\* Is week_key taken to follow last_key?
consecutive_week(week_key_, last_key) ==
    week_key_ = last_key + 1 \/ (week_key_ > last_key + 50 /\ week_key_ < last_key + 60)

\* for (week_key, count) in week_counts
RECURSIVE scan_weeks(_, _, _, _, _, _, _)
scan_weeks(week_keys, counts, i, times_per_week, last_week_key, current_streak, longest_streak) ==
    IF i > Len(week_keys) THEN Max(longest_streak, current_streak)
    ELSE LET wk == week_keys[i] IN
         IF counts[wk] >= times_per_week
         THEN IF last_week_key # None
              THEN IF consecutive_week(wk, unwrap(last_week_key))
                   THEN scan_weeks(week_keys, counts, i + 1, times_per_week, Some(wk),
                                   current_streak + 1, longest_streak)
                   ELSE scan_weeks(week_keys, counts, i + 1, times_per_week, Some(wk),
                                   1, Max(longest_streak, current_streak))
              ELSE scan_weeks(week_keys, counts, i + 1, times_per_week, Some(wk),
                              1, longest_streak)
         ELSE scan_weeks(week_keys, counts, i + 1, times_per_week, None,
                         0, Max(longest_streak, current_streak))

longest_streak_weekly(sorted_entries, times_per_week) ==
    LET counts == weeks_map(sorted_entries)
    IN scan_weeks(sorted_keys(DOMAIN counts), counts, 1, times_per_week, None, 0, 0)

calculate_longest_streak(entries, frequency) ==
    IF entries = <<>> THEN 0
    ELSE LET sorted_entries == sort_asc(entries) IN
         IF frequency.kind = "Weekly"
         THEN longest_streak_weekly(sorted_entries, frequency.n)
         ELSE scan_entries(sorted_entries, 2, frequency, sorted_entries[1], 1, 0)

(***************************************************************************)
(* f64 arithmetic of calculate_completion_rate.  A finite positive f64 is  *)
(* [mant, exp]: the 53 bits of its significand, most significant first,    *)
(* and the exponent of the leading bit, so that its value is               *)
(* mant * 2^(exp - 52).  Operations round to nearest, ties to even.        *)
(***************************************************************************)
\* bits of the significand of an f64: 52 stored and the leading one
F64Bits == 52 + 1

\* The binary digits of a natural number below 2^31, most significant first
bits(n) ==
    LET len == Cardinality({ k \in 0..30 : 2^k <= n })
    IN [i \in 1..len |-> (n \div 2^(len - i)) % 2]

\* The w lowest binary digits of a natural number
low_bits(n, w) == [i \in 1..w |-> (n \div 2^(w - i)) % 2]

\* The number that at most 27 digits stand for
RECURSIVE bits_value(_)
bits_value(digits) ==
    IF digits = <<>> THEN 0
    ELSE 2 * bits_value(SubSeq(digits, 1, Len(digits) - 1)) + digits[Len(digits)]

\* 2^k modulo d, for d below 100 and k below 80
pow2mod(k, d) == ((2^(k % 16) % d) * (((2^16 % d)^(k \div 16)) % d)) % d

\* The first k binary digits of r / d after the point (0 <= r < d < 100)
fraction_bits(r, d, k) == [i \in 1..k |-> (2 * ((r * pow2mod(i - 1, d)) % d)) \div d]

\* The remainder left after k digits of r / d
fraction_rem(r, d, k) == (r * pow2mod(k, d)) % d

\* The number of zeros before the first one
leading_zeros(digits) ==
    Cardinality({ i \in 1..Len(digits) : \A j \in 1..i : digits[j] = 0 })

\* digits + 1, one digit longer when every digit is one
increment(digits) ==
    LET zeros == { i \in 1..Len(digits) : digits[i] = 0 }
    IN IF zeros = {} THEN <<1>> \o [i \in 1..Len(digits) |-> 0]
       ELSE LET last == CHOOSE i \in zeros : \A j \in zeros : j <= i
            IN [i \in 1..Len(digits) |->
                   IF i < last THEN digits[i] ELSE IF i = last THEN 1 ELSE 0]

\* digits * t for a natural t below 16 and 28 to 53 digits: the product of
\* the 27 low digits, and that of the others with its carry
mul_bits(digits, t) ==
    LET high == bits_value(SubSeq(digits, 1, Len(digits) - 27))
        low == bits_value(SubSeq(digits, Len(digits) - 26, Len(digits)))
    IN bits(high * t + (low * t) \div 2^27) \o low_bits((low * t) % 2^27, 27)

\* -1, 0 or 1 as a < b, a = b or a > b, for digits without leading zeros
cmp_bits(a, b) ==
    IF Len(a) # Len(b) THEN (IF Len(a) > Len(b) THEN 1 ELSE 0 - 1)
    ELSE IF a = b THEN 0
    ELSE LET i == CHOOSE k \in 1..Len(a) : a[k] # b[k] /\ \A j \in 1..(k - 1) : a[j] = b[j]
         IN IF a[i] > b[i] THEN 1 ELSE 0 - 1

\* The f64 nearest to digits * 2^(exp - Len(digits) + 1) (digits start with
\* a one; sticky: something non-zero follows the digits), ties to even
round_nearest_even(digits, sticky, exp) ==
    IF Len(digits) <= F64Bits
    THEN [mant |-> digits \o [i \in 1..(F64Bits - Len(digits)) |-> 0], exp |-> exp]
    ELSE LET keep == SubSeq(digits, 1, F64Bits)
             half == digits[F64Bits + 1]
             rest == sticky \/ \E i \in (F64Bits + 2)..Len(digits) : digits[i] = 1
             up == half = 1 /\ (rest \/ keep[F64Bits] = 1)
             next == increment(keep)
         IN IF ~up THEN [mant |-> keep, exp |-> exp]
            ELSE IF Len(next) > F64Bits
            THEN [mant |-> SubSeq(next, 1, F64Bits), exp |-> exp + 1]
            ELSE [mant |-> next, exp |-> exp]

\* n as f64 / d as f64, for naturals n >= 1 and d >= 1
f64_div(n, d) ==
    LET whole == bits(n \div d)
        r == n % d
    IN IF whole # <<>>
       THEN round_nearest_even(whole \o fraction_bits(r, d, F64Bits + 1 - Len(whole)),
                               fraction_rem(r, d, F64Bits + 1 - Len(whole)) # 0,
                               Len(whole) - 1)
       ELSE LET digits == fraction_bits(r, d, F64Bits + 1 + Len(bits(d)))
                z == leading_zeros(digits)
            IN round_nearest_even(SubSeq(digits, z + 1, z + F64Bits + 1),
                                  fraction_rem(r, d, z + F64Bits + 1) # 0,
                                  0 - (z + 1))

\* x * (t as f64), for an f64 x and a natural t >= 1
f64_mul(x, t) ==
    LET product == mul_bits(x.mant, t)
    IN round_nearest_even(product, FALSE, x.exp + (Len(product) - F64Bits))

\* -1, 0 or 1 as the f64 x is below, equal to or above n / d (x.exp <= 52)
f64_cmp(x, n, d) ==
    cmp_bits(mul_bits(x.mant, d), bits(n) \o [i \in 1..(F64Bits - 1 - x.exp) |-> 0])

(***************************************************************************)
(* Streak::calculate_completion_rate (src/domain/streak.rs:551-588)        *)
(***************************************************************************)
\* expected_completions as the fraction num / den (den > 0)
expected_completions(frequency, days_since_creation) ==
    CASE frequency.kind = "Daily" -> [num |-> days_since_creation, den |-> 1]
      [] frequency.kind = "Weekly" ->
            [num |-> days_since_creation * frequency.n, den |-> 7]
      [] frequency.kind = "Weekdays" -> [num |-> days_since_creation * 5, den |-> 7]
      [] frequency.kind = "Weekends" -> [num |-> days_since_creation * 2, den |-> 7]
      [] OTHER -> [num |-> days_since_creation, den |-> 1]

\* -1, 0 or 1 as the f64 expected_completions is below, equal to or above
\* the number of entries (days_since_creation >= 1)
\* The two roundings move expected by less than 1/7 from the fraction
\* days * t / 7, so they can decide the comparison only when the fraction
\* is the integer actual; only then are the f64 values computed.
cmp_expected_actual(frequency, days_since_creation, actual) ==
    LET weeks == f64_div(days_since_creation, 7)
        expected == expected_completions(frequency, days_since_creation)
    IN IF expected.num > actual * expected.den THEN 1
       ELSE IF expected.num < actual * expected.den THEN 0 - 1
       ELSE CASE frequency.kind = "Weekly" ->
                     f64_cmp(f64_mul(weeks, frequency.n), actual, 1)
              [] frequency.kind = "Weekdays" -> f64_cmp(f64_mul(weeks, 5), actual, 1)
              [] frequency.kind = "Weekends" -> f64_cmp(f64_mul(weeks, 2), actual, 1)
              [] OTHER -> 0

\* A completion rate is the fraction num / den (den > 0) that the f64
\* stands for, and ulps: how many units in the last place the f64 is away
\* from the fraction when the fraction is 1.
Zero == [num |-> 0, den |-> 1, ulps |-> 0]
One == [num |-> 1, den |-> 1, ulps |-> 0]

\* The largest f64 below 1.0: 0.9999999999999999
BelowOne == [num |-> 1, den |-> 1, ulps |-> 0 - 1]

RECURSIVE gcd(_, _)
gcd(a, b) == IF b = 0 THEN a ELSE gcd(b, a % b)

\* The f64 quotient a / b (a >= 0, b > 0), as a fraction in lowest terms
quotient(a, b) == [num |-> a \div gcd(a, b), den |-> b \div gcd(a, b), ulps |-> 0]

\* calculate_completion_rate without `.min(1.0)`
calculate_completion_rate_no_cap(entries, frequency, created_at, now) ==
    IF entries = <<>> THEN Zero
    ELSE LET expected == expected_completions(frequency, (now - created_at) + 1)
         IN IF expected.num <= 0 THEN Zero
            ELSE quotient(Len(entries) * expected.den, expected.num)

calculate_completion_rate(entries, frequency, created_at, now) ==
    IF entries = <<>> THEN Zero
    ELSE LET days_since_creation == (now - created_at) + 1
             expected == expected_completions(frequency, days_since_creation)
             actual_completions == Len(entries)
         IN IF expected.num <= 0 THEN Zero
            \* (actual / expected).min(1.0): 1.0 when the f64 expected is
            \* not above actual
            ELSE IF cmp_expected_actual(frequency, days_since_creation,
                                        actual_completions) <= 0 THEN One
            \* expected is above actual though the fraction is not
            ELSE IF actual_completions * expected.den >= expected.num THEN BelowOne
            ELSE quotient(actual_completions * expected.den, expected.num)

(***************************************************************************)
(* Streak::new and Streak::calculate_from_entries                          *)
(***************************************************************************)
\* Streak::new that starts the completion rate at 1.0
Streak_new_full_rate ==
    [current_streak |-> 0, longest_streak |-> 0, last_completed |-> None,
     total_completions |-> 0, completion_rate |-> One]

Streak_new ==
    [current_streak |-> 0, longest_streak |-> 0, last_completed |-> None,
     total_completions |-> 0, completion_rate |-> Zero]

\* calculate_from_entries without `.max(current_streak)`
calculate_from_entries_no_max(entries, frequency, habit_created_at, now) ==
    IF entries = <<>> THEN Streak_new
    ELSE LET sorted_entries == sort_desc(entries)
         IN [current_streak |-> calculate_current_streak(sorted_entries, frequency, now),
             longest_streak |-> calculate_longest_streak(sorted_entries, frequency),
             last_completed |-> Some(sorted_entries[1]),
             total_completions |-> Len(entries),
             completion_rate |-> calculate_completion_rate(sorted_entries, frequency,
                                                          habit_created_at, now)]

\* calculate_from_entries that adds to the Streak of the call before it
calculate_from_entries_carried(entries, frequency, habit_created_at, now) ==
    LET computed == calculate_from_entries_no_max(entries, frequency,
                                                  habit_created_at, now)
    IN IF streak = None THEN computed
       ELSE [computed EXCEPT !.total_completions = @ + unwrap(streak).total_completions]

calculate_from_entries(entries, frequency, habit_created_at, now) ==
    IF entries = <<>> THEN Streak_new
    ELSE LET sorted_entries == sort_desc(entries)
             total_completions == Len(entries)
             last_completed == sorted_entries[1]
             current_streak == calculate_current_streak(sorted_entries, frequency, now)
             longest_streak == calculate_longest_streak(sorted_entries, frequency)
             completion_rate == calculate_completion_rate(sorted_entries, frequency,
                                                          habit_created_at, now)
         IN [current_streak |-> current_streak,
             longest_streak |-> Max(longest_streak, current_streak),
             last_completed |-> Some(last_completed),
             total_completions |-> total_completions,
             completion_rate |-> completion_rate]

(***************************************************************************)
(* Habit (src/domain/habit.rs)                                             *)
(*                                                                         *)
(* A String is represented by its length in bytes and the length of its    *)
(* trim(): [len, trimmed].  A Habit is the record of its name,             *)
(* description, category, frequency, target_value, unit, created_at (as a  *)
(* date) and is_active; the id is the key under which a row is stored.  A  *)
(* Category is [kind, name]: name is the String of Custom(name) and the    *)
(* empty String for the other kinds.                                       *)
(***************************************************************************)
MaxNameLen == 100
MaxDescriptionLen == 500
MaxTargetValue == 10000
MaxUnitLen == 20

\* A three-letter name such as "Run"
DefaultName == [len |-> 3, trimmed |-> 3]

\* Habit::validate_name
validate_name(name) ==
    IF name.trimmed = 0 THEN "InvalidHabitName"
    ELSE IF name.trimmed > MaxNameLen THEN "InvalidHabitName"
    ELSE "Ok"

\* Habit::validate_description: description is an Option<String>
validate_description(description) ==
    IF description # None /\ unwrap(description).len > MaxDescriptionLen
    THEN "Validation"
    ELSE "Ok"

\* Habit::validate_target_and_unit
validate_target_and_unit(target_value, unit) ==
    IF target_value # None /\ unwrap(target_value) = 0 THEN "InvalidValue"
    ELSE IF target_value # None /\ unwrap(target_value) > MaxTargetValue
    THEN "InvalidValue"
    ELSE IF unit # None /\ unwrap(unit).trimmed = 0 THEN "InvalidValue"
    ELSE IF unit # None /\ unwrap(unit).trimmed > MaxUnitLen THEN "InvalidValue"
    ELSE "Ok"

\* The `?` chain: the first result that is not "Ok", else "Ok"
RECURSIVE first_error(_)
first_error(results) ==
    IF results = <<>> THEN "Ok"
    ELSE IF Head(results) # "Ok" THEN Head(results)
    ELSE first_error(Tail(results))

\* Category::Health and the other unit variants; Category::Custom(name)
EmptyString == [len |-> 0, trimmed |-> 0]
Health == [kind |-> "Health", name |-> EmptyString]
Personal == [kind |-> "Personal", name |-> EmptyString]
CustomCategory(name) == [kind |-> "Custom", name |-> name]

\* Habit::from_existing
Habit_from_existing(name, description, category, frequency, target_value, unit, created_at, is_active) ==
    [name |-> name, description |-> description, category |-> category,
     frequency |-> frequency, target_value |-> target_value,
     unit |-> unit, created_at |-> created_at, is_active |-> is_active]

\* Habit::new that does not call frequency.validate()
Habit_new_any_frequency(name, description, category, frequency, target_value, unit, now) ==
    LET error == first_error(<<validate_name(name),
                               validate_description(description),
                               validate_target_and_unit(target_value, unit)>>)
    IN [error |-> error,
        habit |-> IF error = "Ok"
                  THEN Some(Habit_from_existing(name, description, category, frequency,
                                                target_value, unit, now, TRUE))
                  ELSE None]

\* Habit::new: [error, habit], habit is Some(Habit) exactly for Ok
Habit_new(name, description, category, frequency, target_value, unit, now) ==
    LET error == first_error(<<validate_name(name),
                               validate_description(description),
                               validate(frequency),
                               validate_target_and_unit(target_value, unit)>>)
    IN [error |-> error,
        habit |-> IF error = "Ok"
                  THEN Some(Habit_from_existing(name, description, category, frequency,
                                                target_value, unit, now, TRUE))
                  ELSE None]

\* The assignments of Habit::update ("Apply updates"): self with every
\* supplied value written
apply_updates(self, name, description, frequency, target_value, unit, is_active) ==
    [name |-> IF name # None THEN unwrap(name) ELSE self.name,
     description |-> IF description # None THEN unwrap(description)
                     ELSE self.description,
     category |-> self.category,
     frequency |-> IF frequency # None THEN unwrap(frequency) ELSE self.frequency,
     target_value |-> IF target_value # None THEN unwrap(target_value)
                      ELSE self.target_value,
     unit |-> IF unit # None THEN unwrap(unit) ELSE self.unit,
     created_at |-> self.created_at,
     is_active |-> IF is_active # None THEN unwrap(is_active) ELSE self.is_active]

\* The results of the validations of Habit::update, in the order of the code
update_validations(self, name, description, frequency, target_value, unit) ==
    LET new_target == IF target_value # None THEN unwrap(target_value)
                      ELSE self.target_value
        new_unit == IF unit # None THEN unwrap(unit) ELSE self.unit
    IN <<IF name # None THEN validate_name(unwrap(name)) ELSE "Ok",
         IF description # None THEN validate_description(unwrap(description))
         ELSE "Ok",
         IF frequency # None THEN validate(unwrap(frequency)) ELSE "Ok",
         validate_target_and_unit(new_target, new_unit)>>

\* Habit::update that writes each value as soon as its own validation has
\* passed: an error leaves the values validated before it written
Habit_update_as_validated(self, name, description, frequency, target_value, unit, is_active) ==
    LET results == update_validations(self, name, description, frequency,
                                      target_value, unit)
        error == first_error(results)
        passed(i) == \A j \in 1..i : results[j] = "Ok"
    IN [error |-> error,
        habit |-> apply_updates(self,
                                IF passed(1) THEN name ELSE None,
                                IF passed(2) THEN description ELSE None,
                                IF passed(3) THEN frequency ELSE None,
                                IF passed(4) THEN target_value ELSE None,
                                IF passed(4) THEN unit ELSE None,
                                IF passed(4) THEN is_active ELSE None)]

\* Habit::update: [error, habit], habit is self after the call.  name,
\* frequency and is_active are Option<_>; description, target_value and
\* unit are Option<Option<_>>.  Every `?` returns before the first
\* assignment.
Habit_update(self, name, description, frequency, target_value, unit, is_active) ==
    LET error == first_error(update_validations(self, name, description, frequency,
                                                target_value, unit))
    IN [error |-> error,
        habit |-> IF error # "Ok" THEN self
                  ELSE apply_updates(self, name, description, frequency, target_value,
                                     unit, is_active)]

(***************************************************************************)
(* Storage rows (src/storage/sqlite.rs, src/storage/migrations.rs)         *)
(*                                                                         *)
(* habit          the row of the habit the model follows                   *)
(* habit_entries  the habit's rows in table habit_entries: the bag of      *)
(*                their completed_at                                       *)
(* habit_streaks  the habit's row in table habit_streaks, None if absent   *)
(* habit_value    a Habit value held by a caller, outside the database     *)
(* result         the value returned by the last call on a Frequency, or   *)
(*                by a second call of calculate_from_entries               *)
(* invocations    the calls of calculate_from_entries running at the same  *)
(*                time on one caller's entries: for each its frequency,    *)
(*                its position, its sorted_entries and its Streak          *)
(***************************************************************************)
\* SELECT ... ORDER BY completed_at DESC
RECURSIVE get_entries_for_habit(_)
get_entries_for_habit(rows) ==
    IF rows = EmptyBag THEN <<>>
    ELSE LET dates == DOMAIN rows
             m == CHOOSE d \in dates : \A o \in dates : d >= o
         IN [i \in 1..rows[m] |-> m]
                \o get_entries_for_habit([d \in dates \ {m} |-> rows[d]])

\* A table habit_entries without idx_habit_entries_unique
habit_entries_not_unique(rows, completed_at) == FALSE

\* idx_habit_entries_unique on (habit_id, completed_at): does the INSERT of
\* a row for completed_at fail?
idx_habit_entries_unique(rows, completed_at) == completed_at \in DOMAIN rows

\* The table after the INSERT of a row for completed_at
insert_entry(rows, completed_at) ==
    [d \in DOMAIN rows \cup {completed_at} |->
        IF d \in DOMAIN rows
        THEN (IF d = completed_at THEN rows[d] + 1 ELSE rows[d])
        ELSE 1]

\* SqliteStorage::get_streak: the stored row, or a new empty streak
get_streak(row) == IF row = None THEN Streak_new ELSE unwrap(row)

\* HabitEntry::validate_completed_at
MaxPastDays == 365

\* validate_completed_at without the limit of one year in the past
validate_completed_at_no_past_limit(date, now) ==
    IF date > now THEN "InvalidDate" ELSE "Ok"

validate_completed_at(date, now) ==
    IF date > now THEN "InvalidDate"
    ELSE IF date < now - MaxPastDays THEN "InvalidDate"
    ELSE "Ok"

\* the placeholder completion rate of tools/log.rs: 0.8
PlaceholderRate == [num |-> 4, den |-> 5, ulps |-> 0]

\* calculate_habit_streak without `streak.total_completions += 1`
calculate_habit_streak_no_count(row, latest_entry_date) ==
    LET old == get_streak(row)
    IN [old EXCEPT !.current_streak = @ + 1,
                   !.longest_streak = Max(@, old.current_streak + 1),
                   !.last_completed = Some(latest_entry_date)]

\* tools/log.rs calculate_habit_streak: the update of the stored streak
calculate_habit_streak(row, latest_entry_date) ==
    LET old == get_streak(row)
        current_streak == IF old.current_streak = 0 THEN 1
                          ELSE old.current_streak + 1
        longest_streak == IF current_streak > old.longest_streak
                          THEN current_streak ELSE old.longest_streak
        total_completions == old.total_completions + 1
    IN [current_streak |-> current_streak,
        longest_streak |-> longest_streak,
        last_completed |-> Some(latest_entry_date),
        total_completions |-> total_completions,
        completion_rate |-> IF total_completions > 0 THEN PlaceholderRate ELSE Zero]

(***************************************************************************)
(* Operations                                                              *)
(***************************************************************************)
Error(op, kind) ==
    Some([op |-> op, ok |-> FALSE, error |-> kind, current_streak |-> None])

\* HabitEntry::validate_value, validate_intensity, validate_notes
MaxEntryValue == 100000
MinIntensity == 1
MaxIntensity == 10
MaxNotesLen == 500

validate_value(value) ==
    IF value # None /\ unwrap(value) > MaxEntryValue THEN "InvalidValue" ELSE "Ok"

validate_intensity(intensity) ==
    IF intensity # None /\ (unwrap(intensity) < MinIntensity \/ unwrap(intensity) > MaxIntensity)
    THEN "InvalidValue"
    ELSE "Ok"

validate_notes(notes) ==
    IF notes # None /\ unwrap(notes).len > MaxNotesLen THEN "InvalidValue" ELSE "Ok"

\* HabitEntry::new: the first failed validation, or "Ok"
HabitEntry_new(completed_at, value, intensity, notes, now) ==
    IF validate_completed_at(completed_at, now) # "Ok" THEN "InvalidDate"
    ELSE IF validate_value(value) # "Ok" THEN "InvalidValue"
    ELSE IF validate_intensity(intensity) # "Ok" THEN "InvalidValue"
    ELSE validate_notes(notes)

\* The habit ids passed to the tools: the id of the habit the model
\* follows, a well-formed id of no habit, a string that is not a UUID, and
\* the empty string.
HabitIds == { "habit", "another habit", "not a uuid" }
LogHabitIds == HabitIds \cup {""}

\* NaiveDate::parse_from_str(date_str, "%Y-%m-%d"); a date string is
\* [valid, date]: whether it parses, and the date it parses to
parse_from_str(date_str) == IF date_str.valid THEN Some(date_str.date) ELSE None

\* The largest value log_habit itself lets through
MaxToolValue == 999999

\* A date more than MaxPastDays before every reading of the clock
LongAgo == FirstDay - MaxPastDays - 1

\* Parameters of log_habit: a completion of the habit on one of the Days,
\* or on the default date while the clock reads one of the Days, and the
\* same with one parameter changed
ValidParams(completed_at) ==
    [habit_id |-> "habit", completed_at |-> completed_at, value |-> Some(MaxEntryValue),
     intensity |-> Some(MaxIntensity), notes |-> Some([len |-> MaxNotesLen, trimmed |-> 0])]

LogHabitParams(now) ==
    LET valid == ValidParams(Some([valid |-> TRUE, date |-> FirstDay]))
    IN { ValidParams(Some([valid |-> TRUE, date |-> d])) : d \in Days \cup {LongAgo} }
       \cup { ValidParams(None) : d \in Days \cap {now} }
       \cup { ValidParams(Some([valid |-> FALSE, date |-> FirstDay])) }
       \cup { [valid EXCEPT !.habit_id = id] : id \in LogHabitIds }
       \cup { [valid EXCEPT !.value = v] :
                  v \in {None, Some(MaxEntryValue + 1), Some(MaxToolValue + 1)} }
       \cup { [valid EXCEPT !.intensity = i] :
                  i \in {Some(MinIntensity - 1), Some(MinIntensity),
                         Some(MaxIntensity + 1)} }
       \cup { [valid EXCEPT !.notes = Some([len |-> MaxNotesLen + 1, trimmed |-> 0])] }

\* tools/log.rs log_habit up to HabitEntry::new: the error it returns, or "Ok"
log_habit_checks(params, now) ==
    LET parsed == IF params.completed_at # None
                  THEN parse_from_str(unwrap(params.completed_at))
                  ELSE Some(now)
    IN IF params.habit_id = "" THEN "EmptyHabitId"
       ELSE IF params.habit_id = "not a uuid" THEN "InvalidHabitId"
       ELSE IF params.habit_id # "habit" \/ habit = None THEN "HabitNotFound"
       ELSE IF parsed = None THEN "InvalidDateFormat"
       ELSE IF validate_intensity(params.intensity) # "Ok" THEN "InvalidIntensity"
       ELSE IF params.value # None /\ unwrap(params.value) > MaxToolValue
       THEN "ValueTooLarge"
       ELSE IF validate_notes(params.notes) # "Ok" THEN "NotesTooLong"
       ELSE HabitEntry_new(unwrap(parsed), params.value, params.intensity,
                           params.notes, now)

\* tools/log.rs log_habit: what the call writes, and its response
log_habit(params) ==
    /\ LET checked == log_habit_checks(params, today)
           date == IF params.completed_at # None /\ unwrap(params.completed_at).valid
                   THEN unwrap(params.completed_at).date
                   ELSE today
       IN IF checked # "Ok"
          THEN /\ response' = Error("log_habit", checked)
               /\ UNCHANGED <<habit_entries, habit_streaks>>
          ELSE IF idx_habit_entries_unique(habit_entries, date)
          THEN \* create_entry fails
               /\ response' = Error("log_habit", "Constraint")
               /\ UNCHANGED <<habit_entries, habit_streaks>>
          ELSE LET updated_streak == calculate_habit_streak(habit_streaks, date) IN
               /\ habit_entries' = insert_entry(habit_entries, date)
               /\ habit_streaks' = Some(updated_streak)
               /\ response' = Some([op |-> "log_habit", ok |-> TRUE, error |-> "",
                                    current_streak |-> Some(updated_streak.current_streak)])

\* log_habit called directly
LogHabit(params) ==
    /\ habit # None
    /\ log_habit(params)
    /\ call' = None
    /\ streak' = None
    /\ UNCHANGED <<storage_vars, server_vars, invocations, today, habit, habit_value, result>>

\* AnalyticsEngine::calculate_habit_streak on the habit's stored entries
CalculateHabitStreak ==
    /\ habit # None
    /\ LET entries == get_entries_for_habit(habit_entries) IN
       /\ call' = Some([entries |-> entries, frequency |-> unwrap(habit).frequency,
                        created_at |-> unwrap(habit).created_at, today |-> today])
       /\ streak' = Some(calculate_from_entries(entries, unwrap(habit).frequency,
                                                unwrap(habit).created_at, today))
    /\ response' = Some([op |-> "calculate_habit_streak", ok |-> TRUE, error |-> "",
                         current_streak |-> None])
    /\ UNCHANGED <<storage_vars, server_vars, invocations, today, habit, habit_entries, habit_streaks, habit_value, result>>

\* The clock (Utc::now().naive_utc().date()) reaches the next day.
Tick ==
    /\ habit # None
    /\ today < LastToday
    /\ today' = today + 1
    /\ UNCHANGED <<storage_vars, server_vars, invocations, habit, habit_entries, habit_streaks, call, streak, response,
                   habit_value, result>>

\* The database after SqliteStorage::new and the creation of the habit
\* (Habit::new stamps created_at with the clock).
Init ==
    /\ today = StartDay
    /\ habit \in { Some(Habit_from_existing(DefaultName, None, Health, f, None, None,
                                             today, TRUE)) :
                    f \in Frequencies }
    /\ habit_entries = EmptyBag
    /\ habit_streaks = None
    /\ call = None
    /\ streak = None
    /\ response = None
    /\ habit_value = None
    /\ result = None
    /\ invocations = <<>>
    /\ OpenedStorage
    /\ NoServer

Next ==
    \/ \E date \in Days : LogHabit(ValidParams(Some([valid |-> TRUE, date |-> date])))
    \/ CalculateHabitStreak
    \/ Tick

Spec == Init /\ [][Next]_vars

(***************************************************************************)
(* log_habit with every kind of parameter, accepted or rejected, as the    *)
(* days pass.                                                              *)
(***************************************************************************)
NextLog ==
    \/ \E params \in LogHabitParams(today) : LogHabit(params)
    \/ Tick

SpecLog == Init /\ [][NextLog]_vars

(***************************************************************************)
(* HabitEntry::new as a public function, on dates around the two limits of *)
(* validate_completed_at, and log_habit on the Days and on the dates one   *)
(* year before the first reading of the clock, as the days pass.           *)
(***************************************************************************)
\* completed_at relative to the clock
CompletedOffsets ==
    {0 - (MaxPastDays + 1), 0 - MaxPastDays, 0 - (MaxPastDays - 1), 0 - 1, 0, 1}

\* The pending call HabitEntry::new(..) returns.
HabitEntryNew ==
    /\ habit = None
    /\ call # None
    /\ result = None
    /\ result' = Some([op |-> "HabitEntry::new",
                       value |-> HabitEntry_new(unwrap(call).completed_at,
                                                unwrap(call).value,
                                                unwrap(call).intensity,
                                                unwrap(call).notes, today)])
    /\ UNCHANGED <<storage_vars, server_vars, invocations, today, habit, habit_entries, habit_streaks, call, streak,
                   response, habit_value>>

InitEntry ==
    /\ today \in {StartDay, LastToday}
    /\ habit = None
    /\ habit_entries = EmptyBag
    /\ habit_streaks = None
    /\ call \in { Some(c) : c \in [completed_at : { today + o : o \in CompletedOffsets },
                                    value : {None, Some(MaxEntryValue + 1)},
                                    intensity : {None, Some(MaxIntensity)},
                                    notes : {None}] }
    /\ streak = None
    /\ response = None
    /\ habit_value = None
    /\ result = None
    /\ invocations = <<>>
    /\ OpenedStorage
    /\ NoServer

\* The dates passed to log_habit: the Days, the day one year before the
\* first reading of the clock, and the day before that
LoggedDates == Days \cup {StartDay - MaxPastDays, StartDay - MaxPastDays - 1}

InitEntries == Init \/ InitEntry

NextEntries ==
    \/ \E date \in LoggedDates : LogHabit(ValidParams(Some([valid |-> TRUE, date |-> date])))
    \/ Tick
    \/ HabitEntryNew

SpecEntries == InitEntries /\ [][NextEntries]_vars

(***************************************************************************)
(* Streak::calculate_from_entries as a public function: any entry list,    *)
(* any frequency, any creation date, any reading of the clock.             *)
(***************************************************************************)
EntryLists == UNION { [1..n -> Days] : n \in 0..MaxLen }

\* Readings of the clock: from the first Sunday on
CalcTodays == (FirstDay + 2)..LastToday

\* created_at relative to the clock: tomorrow, the day before yesterday
CreatedOffsets == {1, -2}

\* Does the call panic?  `days_since_latest % (*days_interval as i64)`
\* divides by zero for Interval(0); nothing else in the calculation can
\* fail for dates of the calendar above.
panics(entries, frequency) ==
    entries # <<>> /\ frequency.kind = "Interval" /\ frequency.n = 0

\* The pending call returns its Streak, or panics.
CalculateFromEntries ==
    /\ call # None
    /\ streak = None
    /\ response = None
    /\ IF panics(unwrap(call).entries, unwrap(call).frequency)
       THEN /\ response' = Error("calculate_from_entries", "panic")
            /\ UNCHANGED streak
       ELSE /\ streak' = Some(calculate_from_entries(unwrap(call).entries,
                                                     unwrap(call).frequency,
                                                     unwrap(call).created_at, today))
            /\ UNCHANGED response
    /\ UNCHANGED <<storage_vars, server_vars, invocations, today, habit, habit_entries, habit_streaks, call, habit_value, result>>

InitCalc ==
    /\ today \in CalcTodays
    /\ habit = None
    /\ habit_entries = EmptyBag
    /\ habit_streaks = None
    /\ call \in { Some(c) : c \in [entries : EntryLists, frequency : Frequencies,
                                    created_at : { today + o : o \in CreatedOffsets },
                                    today : {today}] }
    /\ streak = None
    /\ response = None
    /\ habit_value = None
    /\ result = None
    /\ invocations = <<>>
    /\ OpenedStorage
    /\ NoServer

NextCalc == CalculateFromEntries

SpecCalc == InitCalc /\ [][NextCalc]_vars

(***************************************************************************)
(* calculate_from_entries called a second time with the arguments of the   *)
(* first call, on the same day or on the next.                             *)
(***************************************************************************)
\* The caller repeats the call it made.
CalculateFromEntriesAgain ==
    /\ call # None
    /\ streak # None
    /\ result = None
    /\ result' = Some([op |-> "calculate_from_entries",
                       value |-> calculate_from_entries(unwrap(call).entries,
                                                        unwrap(call).frequency,
                                                        unwrap(call).created_at, today)])
    /\ UNCHANGED <<storage_vars, server_vars, invocations, today, habit, habit_entries, habit_streaks, call, streak, response,
                   habit_value>>

\* Midnight passes between the two calls.
TickBetweenCalls ==
    /\ call # None
    /\ streak # None
    /\ result = None
    /\ today = unwrap(call).today
    /\ today' = today + 1
    /\ UNCHANGED <<storage_vars, server_vars, invocations, habit, habit_entries, habit_streaks, call, streak, response,
                   habit_value, result>>

\* The arguments of the first call: the lists shorter than MaxLen
InitTwice ==
    /\ InitCalc
    /\ Len(unwrap(call).entries) < MaxLen

NextTwice ==
    \/ CalculateFromEntries
    \/ CalculateFromEntriesAgain
    \/ TickBetweenCalls

SpecTwice == InitTwice /\ [][NextTwice]_vars

(***************************************************************************)
(* Two invocations of calculate_from_entries running at the same time on   *)
(* the entries of one caller (`entries: &[HabitEntry]`), each with its own *)
(* frequency.  An invocation takes two steps: it copies and sorts the      *)
(* entries, then it computes the Streak from its sorted copy.              *)
(***************************************************************************)
Threads == {1, 2}

\* The frequency of the second invocation
SecondFrequencies == {Weekly(1)}

\* A sort of the caller's slice itself
entries_sorted_in_place(entries) == sort_desc(entries)

\* The caller's slice after `entries.to_vec()` and the sort of the copy
entries_after_sort(entries) == entries

\* `if entries.is_empty() { return Self::new(habit_id) }`, else
\* `let mut sorted_entries = entries.to_vec(); sorted_entries.sort_by(..)`
SortEntries(i) ==
    /\ call # None
    /\ i \in DOMAIN invocations
    /\ invocations[i].pc = "start"
    /\ LET entries == unwrap(call).entries
       IN IF entries = <<>>
          THEN /\ invocations' = [invocations EXCEPT ![i].pc = "done",
                                                     ![i].streak = Some(Streak_new)]
               /\ UNCHANGED call
          ELSE /\ invocations' = [invocations EXCEPT ![i].pc = "sorted",
                                                     ![i].sorted_entries = sort_desc(entries)]
               /\ call' = Some([unwrap(call) EXCEPT !.entries = entries_after_sort(entries)])
    /\ UNCHANGED <<storage_vars, server_vars, today, habit, habit_entries, habit_streaks, streak, response,
                   habit_value, result>>

\* The rest of the function, from `let total_completions` to the Streak
ComputeStreak(i) ==
    /\ call # None
    /\ i \in DOMAIN invocations
    /\ invocations[i].pc = "sorted"
    /\ LET entries == unwrap(call).entries
           sorted_entries == invocations[i].sorted_entries
           frequency == invocations[i].frequency
           total_completions == Len(entries)
           last_completed == sorted_entries[1]
           current_streak == calculate_current_streak(sorted_entries, frequency, today)
           longest_streak == calculate_longest_streak(sorted_entries, frequency)
           completion_rate == calculate_completion_rate(sorted_entries, frequency,
                                                        unwrap(call).created_at, today)
       IN invocations' =
              [invocations EXCEPT ![i].pc = "done",
                                  ![i].streak =
                                      Some([current_streak |-> current_streak,
                                            longest_streak |-> Max(longest_streak,
                                                                   current_streak),
                                            last_completed |-> Some(last_completed),
                                            total_completions |-> total_completions,
                                            completion_rate |-> completion_rate])]
    /\ UNCHANGED <<storage_vars, server_vars, today, habit, habit_entries, habit_streaks, call, streak, response,
                   habit_value, result>>

\* The caller's arguments, and for each invocation the entries as the
\* caller passed them
InitConcurrent ==
    /\ today \in {StartDay, LastToday}
    /\ habit = None
    /\ habit_entries = EmptyBag
    /\ habit_streaks = None
    /\ call \in { Some(c) : c \in [entries : { l \in EntryLists : Len(l) < MaxLen },
                                    frequency : Frequencies,
                                    created_at : {today - 2},
                                    today : {today}] }
    /\ streak = None
    /\ response = None
    /\ habit_value = None
    /\ result = None
    /\ OpenedStorage
    /\ NoServer
    /\ \E second \in SecondFrequencies :
           invocations = [i \in Threads |->
                             [frequency |-> IF i = 1 THEN unwrap(call).frequency
                                            ELSE second,
                              entries |-> unwrap(call).entries,
                              pc |-> "start",
                              sorted_entries |-> <<>>,
                              streak |-> None]]

NextConcurrent ==
    \/ \E i \in Threads : SortEntries(i)
    \/ \E i \in Threads : ComputeStreak(i)

SpecConcurrent == InitConcurrent /\ [][NextConcurrent]_vars

(***************************************************************************)
(* calculate_from_entries on long histories: an entry every day, every     *)
(* second, third or seventh day; the weekly ones go back further than the  *)
(* walk over the weeks does.                                               *)
(***************************************************************************)
\* n entries, the newest on `last`, one every `step` days
EveryNthDay(last, step, n) == [i \in 1..n |-> last - step * (i - 1)]

LongEntryLists(now) ==
    { EveryNthDay(now - back, step, WeekLoopLimit + 2) :
          back \in {0, 1, 7}, step \in {1, 2, 3, 7} }

InitLong ==
    /\ today = LastToday
    /\ habit = None
    /\ habit_entries = EmptyBag
    /\ habit_streaks = None
    /\ call \in { Some(c) : c \in [entries : LongEntryLists(today), frequency : Frequencies,
                                    created_at : { today + o : o \in CreatedOffsets },
                                    today : {today}] }
    /\ streak = None
    /\ response = None
    /\ habit_value = None
    /\ result = None
    /\ invocations = <<>>
    /\ OpenedStorage
    /\ NoServer

InitCalcLong == InitCalc \/ InitLong

SpecCalcLong == InitCalcLong /\ [][NextCalc]_vars

(***************************************************************************)
(* calculate_from_entries on a habit logged every day: the last n days     *)
(* have an entry and the habit was created up to RateDays days ago, under  *)
(* the frequencies of the model and seven times per week.                  *)
(***************************************************************************)
\* Four weeks and two days
RateDays == 4 * 7 + 2

RateFrequencies == Frequencies \union {Weekly(MaxTimesPerWeek)}

InitRate ==
    /\ today = LastToday
    /\ habit = None
    /\ habit_entries = EmptyBag
    /\ habit_streaks = None
    /\ call \in { Some(c) : c \in [entries : { EveryNthDay(today, 1, n) : n \in 0..RateDays },
                                    frequency : RateFrequencies,
                                    created_at : { today - d : d \in (0 - 1)..(RateDays - 1) },
                                    today : {today}] }
    /\ streak = None
    /\ response = None
    /\ habit_value = None
    /\ result = None
    /\ invocations = <<>>
    /\ OpenedStorage
    /\ NoServer

SpecRate == InitRate /\ [][NextCalc]_vars

(***************************************************************************)
(* Both kinds of run: the database holds the habit and serves requests,    *)
(* or calculate_from_entries is called directly.                           *)
(***************************************************************************)
InitAll == Init \/ InitCalc

NextAll ==
    \/ habit # None /\ Next
    \/ habit = None /\ NextCalc

SpecAll == InitAll /\ [][NextAll]_vars

(***************************************************************************)
(* The methods of Frequency as public functions: any Frequency value the   *)
(* type admits, valid or not, and any date.                                *)
(***************************************************************************)
Weekdays7 == {Mon, Tue, Wed, Thu, Fri, Sat, Sun}
WeekOfDays == <<Mon, Tue, Wed, Thu, Fri, Sat, Sun>>

\* Largest value of the u8 of Weekly; a large value of the u32 of Interval
U8Max == 2^8 - 1
LargeInterval == 1000 * MaxIntervalDays

\* Vec<Weekday> values: every list of up to two days, the whole week, and
\* lists of 7, 8 and 9 days that repeat a day
CustomInputs ==
    UNION { [1..n -> Weekdays7] : n \in 0..2 }
      \cup { WeekOfDays, <<Mon>> \o SubSeq(WeekOfDays, 1, 6),
             WeekOfDays \o <<Mon>>, WeekOfDays \o <<Sat, Sun>> }

FrequencyInputs ==
    {Daily, Weekdays, Weekends}
      \cup { Weekly(t) : t \in (0..(MaxTimesPerWeek + 2)) \cup {U8Max} }
      \cup { Custom(ds) : ds \in CustomInputs }
      \cup { Interval(k) : k \in (0..3) \cup ((MaxIntervalDays - 1)..(MaxIntervalDays + 2))
                                 \cup {LargeInterval} }

\* The pending call frequency.validate() returns.
Validate ==
    /\ call # None
    /\ result = None
    /\ result' = Some([op |-> "validate", value |-> validate(unwrap(call).frequency)])
    /\ UNCHANGED <<storage_vars, server_vars, invocations, today, habit, habit_entries, habit_streaks, call, streak, response,
                   habit_value>>

\* The pending call frequency.is_scheduled_for_date(date) returns.
IsScheduledForDate ==
    /\ call # None
    /\ result = None
    /\ result' = Some([op |-> "is_scheduled_for_date",
                       value |-> is_scheduled_for_date(unwrap(call).frequency,
                                                       unwrap(call).date)])
    /\ UNCHANGED <<storage_vars, server_vars, invocations, today, habit, habit_entries, habit_streaks, call, streak, response,
                   habit_value>>

InitFrequency ==
    /\ today = StartDay
    /\ habit = None
    /\ habit_entries = EmptyBag
    /\ habit_streaks = None
    /\ call \in { Some(c) : c \in [frequency : FrequencyInputs, date : Days] }
    /\ streak = None
    /\ response = None
    /\ habit_value = None
    /\ result = None
    /\ invocations = <<>>
    /\ OpenedStorage
    /\ NoServer

NextFrequency ==
    \/ Validate
    \/ IsScheduledForDate

SpecFrequency == InitFrequency /\ [][NextFrequency]_vars

(***************************************************************************)
(* Habits: the habit_create and habit_update tools (src/tools/create.rs,   *)
(* src/tools/update.rs), Habit::new and Habit::update on a value held by   *)
(* a caller, and the habits table.                                         *)
(***************************************************************************)
WeekdayNames == <<"Mon", "Tue", "Wed", "Thu", "Fri", "Sat", "Sun">>

\* serde_json::to_string(&frequency): "Daily" is <<"Daily">>,
\* {"Weekly":3} is <<"Weekly", 3>>, {"Custom":["Mon"]} is <<"Custom", <<"Mon">>>>
serde_json_to_string(frequency) ==
    CASE frequency.kind \in {"Weekly", "Interval"} -> <<frequency.kind, frequency.n>>
      [] frequency.kind = "Custom" ->
            <<"Custom", [i \in 1..Len(frequency.days) |->
                            WeekdayNames[frequency.days[i] + 1]]>>
      [] OTHER -> <<frequency.kind>>

\* serde_json::from_str(&frequency_json)
serde_json_from_str(json) ==
    CASE json[1] = "Daily" -> Daily
      [] json[1] = "Weekdays" -> Weekdays
      [] json[1] = "Weekends" -> Weekends
      [] json[1] = "Weekly" -> Weekly(json[2])
      [] json[1] = "Interval" -> Interval(json[2])
      [] json[1] = "Custom" ->
            Custom([i \in 1..Len(json[2]) |->
                       CHOOSE wd \in Mon..Sun : WeekdayNames[wd + 1] = json[2][i]])

\* The names of the Category variants without a value and their strings
CategoryKinds == <<"Health", "Productivity", "Social", "Creative", "Mindfulness",
                   "Financial", "Household", "Personal">>
CategoryStrings == <<"health", "productivity", "social", "creative", "mindfulness",
                     "financial", "household", "personal">>

\* SqliteStorage::category_to_string.  A category string is [text, rest]:
\* text is the string up to and including "custom:", rest what follows.
category_to_string(category) ==
    IF category.kind = "Custom"
    THEN [text |-> "custom:", rest |-> category.name]
    ELSE [text |-> CategoryStrings[CHOOSE i \in 1..Len(CategoryKinds) :
                                      CategoryKinds[i] = category.kind],
          rest |-> EmptyString]

\* SqliteStorage::string_to_category on a stored string
string_to_category(s) ==
    IF s.text = "custom:" THEN CustomCategory(s.rest)
    ELSE [kind |-> CategoryKinds[CHOOSE i \in 1..Len(CategoryStrings) :
                                    CategoryStrings[i] = s.text],
          name |-> EmptyString]

\* The Habit that get_habit builds from the row that create_habit or
\* update_habit writes for h.
habits_row(h) ==
    Habit_from_existing(h.name, h.description,
                        string_to_category(category_to_string(h.category)),
                        serde_json_from_str(serde_json_to_string(h.frequency)),
                        h.target_value, h.unit, h.created_at, h.is_active)

\* params.frequency.trim().to_lowercase() on the strings the model passes
trim_to_lowercase(text) == IF text = " Weekly " THEN "weekly" ELSE text

\* parse_frequency (and the same match of create_habit): Some(frequency),
\* or None for the Err
parse_frequency(freq_str) ==
    LET text == trim_to_lowercase(freq_str) IN
    CASE text = "daily" -> Some(Daily)
      [] text = "weekdays" -> Some(Weekdays)
      [] text = "weekends" -> Some(Weekends)
      [] text = "weekly" -> Some(Weekly(3))
      [] text = "custom" -> Some(Custom(<<Mon>>))
      [] OTHER -> None

\* The category match of create_habit: Some(category), or None for the
\* Err.  A string is [text, rest]: text is the trimmed lowercase string up
\* to and including "custom:", rest what follows; the name of a custom
\* category is rest.trim().
parse_category(category) ==
    IF \E i \in 1..Len(CategoryStrings) : CategoryStrings[i] = category.text
    THEN Some(string_to_category([text |-> category.text, rest |-> EmptyString]))
    ELSE IF category.text = "custom:" /\ category.rest.trimmed # 0
    THEN Some(CustomCategory([len |-> category.rest.trimmed,
                              trimmed |-> category.rest.trimmed]))
    ELSE None

Ok(op) == Some([op |-> op, ok |-> TRUE, error |-> "", current_streak |-> None])

\* Strings and numbers passed to the tools and to Habit::new / Habit::update
Names == { [len |-> 0, trimmed |-> 0], DefaultName,
           [len |-> MaxNameLen + 1, trimmed |-> MaxNameLen + 1] }
Descriptions == { None, Some([len |-> MaxDescriptionLen + 1,
                              trimmed |-> MaxDescriptionLen + 1]) }
Categories == { [text |-> "health", rest |-> [len |-> 0, trimmed |-> 0]],
                [text |-> "custom:", rest |-> [len |-> 1, trimmed |-> 0]],
                [text |-> "sports", rest |-> [len |-> 0, trimmed |-> 0]] }
FrequencyStrings == { "daily", "weekdays", "weekends", "weekly", " Weekly ",
                      "custom", "interval", "" }
TargetValues == { None, Some(0), Some(30) }
Units == { None, Some([len |-> 1, trimmed |-> 0]) }
\* Frequency values passed to Habit::new and Habit::update
HabitFrequencies ==
    { Weekly(0), Weekly(MaxTimesPerWeek), Weekly(MaxTimesPerWeek + 1),
      Custom(<<>>), Custom(WeekOfDays \o <<Mon>>),
      Interval(0), Interval(MaxIntervalDays), Interval(MaxIntervalDays + 1) }

\* Option<T> values over a set of T values
Optional(S) == {None} \cup { Some(x) : x \in S }

\* tools/create.rs create_habit; the new row is the one the model follows
CreateHabit(name, description, category, frequency, target_value, unit) ==
    /\ habit = None
    /\ LET parsed == parse_frequency(frequency)
           created == Habit_new(name, description, unwrap(parse_category(category)),
                                unwrap(parsed), target_value, unit, today)
       IN IF name.trimmed = 0 \/ name.len > MaxNameLen
          THEN /\ response' = Error("create_habit", "InvalidHabitName")
               /\ UNCHANGED habit
          ELSE IF parse_category(category) = None
          THEN /\ response' = Error("create_habit", "InvalidCategory")
               /\ UNCHANGED habit
          ELSE IF parsed = None
          THEN /\ response' = Error("create_habit", "InvalidFrequency")
               /\ UNCHANGED habit
          ELSE IF created.error # "Ok"
          THEN /\ response' = Error("create_habit", created.error)
               /\ UNCHANGED habit
          ELSE /\ habit' = Some(habits_row(unwrap(created.habit)))
               /\ response' = Ok("create_habit")
    /\ call' = None
    /\ streak' = None
    /\ UNCHANGED <<storage_vars, server_vars, invocations, today, habit_entries, habit_streaks, habit_value, result>>

\* tools/update.rs update_habit.  The Option<String> and Option<u32>
\* parameters reach Habit::update as Some(Some(_)) or None.
UpdateHabit(habit_id, name, description, frequency, target_value, unit, is_active) ==
    /\ LET parsed == IF frequency # None THEN parse_frequency(unwrap(frequency))
                     ELSE None
           updated == Habit_update(unwrap(habit), name,
                                   IF description # None THEN Some(description) ELSE None,
                                   parsed,
                                   IF target_value # None THEN Some(target_value) ELSE None,
                                   IF unit # None THEN Some(unit) ELSE None,
                                   is_active)
       IN IF habit_id # "habit" \/ habit = None
          THEN /\ response' = Error("update_habit", "HabitNotFound")
               /\ UNCHANGED habit
          ELSE IF frequency # None /\ parsed = None
          THEN /\ response' = Error("update_habit", "InvalidFrequency")
               /\ UNCHANGED habit
          ELSE IF updated.error # "Ok"
          THEN /\ response' = Error("update_habit", updated.error)
               /\ UNCHANGED habit
          ELSE /\ habit' = Some(habits_row(updated.habit))
               /\ response' = Ok("update_habit")
    /\ call' = None
    /\ streak' = None
    /\ UNCHANGED <<storage_vars, server_vars, invocations, today, habit_entries, habit_streaks, habit_value, result>>

\* Habit::new called by a user of the library: Ok(habit) is the value the
\* caller now holds, Err leaves the caller with what it had.
HabitNew(name, description, category, frequency, target_value, unit) ==
    /\ LET created == Habit_new(name, description, category, frequency, target_value,
                                unit, today)
       IN IF created.error # "Ok"
          THEN /\ response' = Error("Habit::new", created.error)
               /\ UNCHANGED habit_value
          ELSE /\ habit_value' = created.habit
               /\ response' = Ok("Habit::new")
    /\ call' = None
    /\ streak' = None
    /\ UNCHANGED <<storage_vars, server_vars, invocations, today, habit, habit_entries, habit_streaks, result>>

\* Habit::update on the value the caller holds
HabitUpdate(name, description, frequency, target_value, unit, is_active) ==
    /\ habit_value # None
    /\ LET updated == Habit_update(unwrap(habit_value), name, description, frequency,
                                   target_value, unit, is_active)
       IN /\ habit_value' = Some(updated.habit)
          /\ response' = IF updated.error # "Ok"
                         THEN Error("Habit::update", updated.error)
                         ELSE Ok("Habit::update")
    /\ call' = None
    /\ streak' = None
    /\ UNCHANGED <<storage_vars, server_vars, invocations, today, habit, habit_entries, habit_streaks, result>>

\* SqliteStorage::create_habit with the value the caller holds
StorageCreateHabit ==
    /\ habit_value # None
    /\ habit = None
    /\ habit' = Some(habits_row(unwrap(habit_value)))
    /\ response' = Ok("storage.create_habit")
    /\ call' = None
    /\ streak' = None
    /\ UNCHANGED <<storage_vars, server_vars, invocations, today, habit_entries, habit_streaks, habit_value, result>>

\* SqliteStorage::get_habit: the caller now holds the stored habit
StorageGetHabit ==
    /\ habit # None
    /\ habit_value' = habit
    /\ response' = Ok("storage.get_habit")
    /\ call' = None
    /\ streak' = None
    /\ UNCHANGED <<storage_vars, server_vars, invocations, today, habit, habit_entries, habit_streaks, result>>

\* SqliteStorage::update_habit with the value the caller holds; created_at
\* is not among the columns it sets
StorageUpdateHabit ==
    /\ habit_value # None
    /\ habit # None
    /\ habit' = Some([habits_row(unwrap(habit_value))
                         EXCEPT !.created_at = unwrap(habit).created_at])
    /\ response' = Ok("storage.update_habit")
    /\ call' = None
    /\ streak' = None
    /\ UNCHANGED <<storage_vars, server_vars, invocations, today, habit_entries, habit_streaks, habit_value, result>>

\* The database after SqliteStorage::new: no habit yet
InitHabit ==
    /\ today = StartDay
    /\ habit = None
    /\ habit_entries = EmptyBag
    /\ habit_streaks = None
    /\ call = None
    /\ streak = None
    /\ response = None
    /\ habit_value = None
    /\ result = None
    /\ invocations = <<>>
    /\ OpenedStorage
    /\ NoServer

\* The updates of this run leave is_active as it is; SpecUpdate passes it.
NextHabit ==
    \/ \E name \in Names, description \in Descriptions, category \in Categories,
          frequency \in FrequencyStrings, target_value \in TargetValues, unit \in Units :
          CreateHabit(name, description, category, frequency, target_value, unit)
    \/ \E habit_id \in HabitIds, name \in Optional(Names), description \in Descriptions,
          frequency \in Optional(FrequencyStrings), target_value \in TargetValues,
          unit \in Units, is_active \in {None} :
          UpdateHabit(habit_id, name, description, frequency, target_value, unit,
                      is_active)
    \/ \E name \in Names, description \in Descriptions, frequency \in HabitFrequencies,
          target_value \in TargetValues, unit \in Units :
          HabitNew(name, description, Health, frequency, target_value, unit)
    \/ \E name \in Optional(Names), description \in Optional(Descriptions),
          frequency \in Optional(HabitFrequencies),
          target_value \in Optional(TargetValues), unit \in Optional(Units),
          is_active \in {None} :
          HabitUpdate(name, description, frequency, target_value, unit, is_active)
    \/ StorageCreateHabit
    \/ StorageGetHabit
    \/ StorageUpdateHabit
    \/ CalculateHabitStreak

SpecHabit == InitHabit /\ [][NextHabit]_vars

(***************************************************************************)
(* Habit::update on a stored habit the caller holds, with arguments of     *)
(* which each is absent, valid or invalid, and update_habit on the same    *)
(* row.                                                                    *)
(***************************************************************************)
OtherName == [len |-> 4, trimmed |-> 4]
Minutes == [len |-> 7, trimmed |-> 7]
LongestDescription == [len |-> MaxDescriptionLen, trimmed |-> MaxDescriptionLen]

\* The habits held before the update
HeldHabits ==
    { Habit_from_existing(DefaultName, None, Health, Daily, None, None, StartDay, TRUE),
      Habit_from_existing(DefaultName, Some(LongestDescription), Personal, Weekdays,
                          Some(30), Some(Minutes), StartDay, FALSE) }

\* The arguments of habit.update(..)
UpdateArguments ==
    [name : Optional(Names \cup {OtherName}),
     description : Optional({None, Some(LongestDescription),
                             Some([len |-> MaxDescriptionLen + 1,
                                   trimmed |-> MaxDescriptionLen + 1])}),
     frequency : Optional({Weekly(0), Weekly(MaxTimesPerWeek)}),
     target_value : Optional({None, Some(0), Some(MaxTargetValue)}),
     unit : Optional(Units),
     is_active : Optional(BOOLEAN)]

\* The pending call unwrap(call).self.update(..) returns: the caller holds
\* self as the call left it.
HabitUpdateCall ==
    /\ call # None
    /\ habit_value # None
    /\ response = None
    /\ LET c == unwrap(call)
           updated == Habit_update(unwrap(habit_value), c.name, c.description,
                                   c.frequency, c.target_value, c.unit, c.is_active)
       IN /\ habit_value' = Some(updated.habit)
          /\ response' = IF updated.error # "Ok"
                         THEN Error("Habit::update", updated.error)
                         ELSE Ok("Habit::update")
    /\ UNCHANGED <<storage_vars, server_vars, invocations, today, habit, habit_entries, habit_streaks, call, streak,
                   result>>

\* The caller holds a stored habit and is about to call update on it.
InitUpdate ==
    /\ today = StartDay
    /\ habit_value \in { Some(h) : h \in HeldHabits }
    /\ habit = habit_value
    /\ habit_entries = EmptyBag
    /\ habit_streaks = None
    /\ call \in { Some([self |-> unwrap(habit_value)] @@ a) : a \in UpdateArguments }
    /\ streak = None
    /\ response = None
    /\ result = None
    /\ invocations = <<>>
    /\ OpenedStorage
    /\ NoServer

NextUpdate ==
    \/ HabitUpdateCall
    \/ \E name \in Optional({OtherName}), frequency \in Optional({"weekly"}),
          target_value \in {None, Some(0)}, is_active \in Optional(BOOLEAN) :
          UpdateHabit("habit", name, None, frequency, target_value, None, is_active)

SpecUpdate == InitUpdate /\ [][NextUpdate]_vars

(***************************************************************************)
(* The storage layer (src/storage/sqlite.rs, src/storage/migrations.rs):   *)
(* a new database file is opened, habits are created in it, listed,        *)
(* fetched and deleted, completions of habit "h1" are stored, and the file *)
(* is opened again at any time.                                            *)
(***************************************************************************)
\* The ids that HabitId::new() gives the habits of this run
StoredIds == {"h1", "h2", "h3"}
StoredCategories == {Health, Personal, CustomCategory(OtherName)}

\* get_current_version that finds no version row
get_current_version_no_row(rows) == {0}

\* get_current_version: the versions that SELECT version FROM
\* schema_version LIMIT 1 can give, 0 if there is no row
get_current_version(rows) == IF rows = {} THEN {0} ELSE rows

\* set_version: DELETE FROM schema_version, then INSERT
set_version(rows, version) == (rows \ rows) \cup {version}

\* migration_v1 with create_indexes_v1: every CREATE is IF NOT EXISTS
migration_v1(names) == names \cup SchemaV1

\* initialize_database, called by SqliteStorage::new on every open
InitializeDatabase ==
    /\ \E current_version \in get_current_version(schema_version) :
           IF current_version < CURRENT_VERSION
           THEN /\ tables' = migration_v1(tables \cup {"schema_version"})
                /\ applied' = applied + 1
                /\ schema_version' = set_version(schema_version, CURRENT_VERSION)
           ELSE /\ tables' = tables \cup {"schema_version"}
                /\ UNCHANGED <<applied, schema_version>>
    /\ response' = Ok("initialize_database")
    /\ call' = None
    /\ result' = None
    /\ UNCHANGED <<server_vars, invocations, today, habit, habit_entries, habit_streaks,
                   habits, streak, habit_value>>

\* SqliteStorage::create_habit of a habit that Habit::new has just built
CreateHabitRow(id, category) ==
    /\ "habits" \in tables
    /\ id \notin DOMAIN habits
    /\ LET created == Habit_new(DefaultName, None, category, Daily, None, None, today)
       IN habits' = habits @@ (id :> habits_row(unwrap(created.habit)))
    /\ response' = Ok("create_habit")
    /\ call' = None
    /\ result' = None
    /\ UNCHANGED <<server_vars, invocations, today, habit, habit_entries, habit_streaks,
                   tables, schema_version, applied, streak, habit_value>>

\* create_entry and update_streak for habit "h1", as log_habit calls them
CreateEntry(date) ==
    /\ "habit_entries" \in tables
    /\ "h1" \in DOMAIN habits
    /\ IF idx_habit_entries_unique(habit_entries, date)
       THEN /\ response' = Error("create_entry", "Constraint")
            /\ UNCHANGED <<habit_entries, habit_streaks>>
       ELSE /\ habit_entries' = insert_entry(habit_entries, date)
            /\ habit_streaks' = Some(calculate_habit_streak(habit_streaks, date))
            /\ response' = Ok("create_entry")
    /\ call' = None
    /\ result' = None
    /\ UNCHANGED <<storage_vars, server_vars, invocations, today, habit, streak,
                   habit_value>>

\* DELETE FROM habits WHERE id = ?1: the row is gone
delete_habit_row(rows, id) == [i \in DOMAIN rows \ {id} |-> rows[i]]

\* UPDATE habits SET is_active = 0 WHERE id = ?1
delete_habit(rows, id) == [rows EXCEPT ![id].is_active = FALSE]

\* SqliteStorage::delete_habit
DeleteHabit(id) ==
    /\ "habits" \in tables
    /\ IF id \notin DOMAIN habits
       THEN /\ response' = Error("delete_habit", "HabitNotFound")
            /\ UNCHANGED habits
       ELSE /\ habits' = delete_habit(habits, id)
            /\ response' = Ok("delete_habit")
    /\ call' = Some([habit_id |-> id])
    /\ result' = None
    /\ UNCHANGED <<server_vars, invocations, today, habit, habit_entries, habit_streaks,
                   tables, schema_version, applied, streak, habit_value>>

\* SqliteStorage::get_habit: the caller now holds the habit of the row
GetHabit(id) ==
    /\ "habits" \in tables
    /\ IF id \notin DOMAIN habits
       THEN /\ response' = Error("get_habit", "HabitNotFound")
            /\ UNCHANGED habit_value
       ELSE /\ habit_value' = Some(habits_row(habits[id]))
            /\ response' = Ok("get_habit")
    /\ call' = Some([habit_id |-> id])
    /\ result' = None
    /\ UNCHANGED <<storage_vars, server_vars, invocations, today, habit, habit_entries,
                   habit_streaks, streak>>

\* The WHERE clause of SqliteStorage::list_habits: the ids of the rows it
\* selects.  The parameter _category is not read.
list_habits(rows, category, active_only) ==
    { id \in DOMAIN rows : active_only => rows[id].is_active }

\* ORDER BY created_at DESC: the orders in which the selected rows can come
order_by_created_at_desc(rows, ids) ==
    { order \in [1..Cardinality(ids) -> ids] :
          /\ \A i, j \in DOMAIN order : i # j => order[i] # order[j]
          /\ \A i, j \in DOMAIN order :
                 i < j => rows[order[i]].created_at >= rows[order[j]].created_at }

\* SqliteStorage::list_habits: the Vec<Habit>, each habit with its id
ListHabits(category, active_only) ==
    /\ "habits" \in tables
    /\ \E order \in order_by_created_at_desc(habits,
                                              list_habits(habits, category, active_only)) :
           result' = Some([op |-> "list_habits",
                           value |-> [i \in DOMAIN order |->
                                         [id |-> order[i],
                                          habit |-> habits_row(habits[order[i]])]]])
    /\ response' = Ok("list_habits")
    /\ call' = Some([category |-> category, active_only |-> active_only])
    /\ UNCHANGED <<storage_vars, server_vars, invocations, today, habit, habit_entries,
                   habit_streaks, streak, habit_value>>

\* A database file that does not exist yet
InitStorage ==
    /\ today = StartDay
    /\ habit = None
    /\ habit_entries = EmptyBag
    /\ habit_streaks = None
    /\ call = None
    /\ streak = None
    /\ response = None
    /\ habit_value = None
    /\ result = None
    /\ invocations = <<>>
    /\ tables = {}
    /\ schema_version = {}
    /\ applied = 0
    /\ habits = <<>>
    /\ NoServer

NextStorage ==
    \/ InitializeDatabase
    \/ \E id \in StoredIds, category \in StoredCategories : CreateHabitRow(id, category)
    \/ CreateEntry(StartDay)
    \/ \E id \in StoredIds : DeleteHabit(id)
    \/ \E id \in StoredIds : GetHabit(id)
    \/ \E category \in Optional({Health, Personal}), active_only \in BOOLEAN :
          ListHabits(category, active_only)

SpecStorage == InitStorage /\ [][NextStorage]_vars

(***************************************************************************)
(* The MCP server (src/mcp/server.rs, src/mcp/protocol.rs)                 *)
(*                                                                         *)
(* stdin        the lines on standard input, in order                      *)
(* lines_read   how many of them read_line has returned                    *)
(* line         the line that has been read and is being processed         *)
(* stdout       the responses written to standard output, in order         *)
(* initialized  McpServer.initialized                                      *)
(*                                                                         *)
(* A line is [text, jsonrpc, id, method, params]: text tells whether the   *)
(* line is blank (nothing but white space), is not a JSON object, or is an *)
(* object; the other fields are the members of the object, None for a      *)
(* missing one.  An id (a serde_json::Value) is written as a string,       *)
(* "null" for JSON null.  params is [name, arguments].                     *)
(***************************************************************************)
\* Longest input the server is given, in lines
MaxLines == 3

PARSE_ERROR == 0 - 32700
METHOD_NOT_FOUND == 0 - 32601
INVALID_PARAMS == 0 - 32602

BlankLine == [text |-> "blank", jsonrpc |-> None, id |-> None, method |-> None,
              params |-> None]
NotJson == [BlankLine EXCEPT !.text = "not json"]
Request(id, method, params) ==
    [text |-> "object", jsonrpc |-> Some("2.0"), id |-> Some(id),
     method |-> Some(method), params |-> params]

\* The arguments of a habit_log call for the first day
LogArguments == ValidParams(Some([valid |-> TRUE, date |-> StartDay]))

\* The lines a client sends: blank, not JSON, a notification (no id),
\* and requests with the methods the server knows and one it does not
Lines ==
    { BlankLine, NotJson,
      [Request("0", "initialized", None) EXCEPT !.id = None],
      Request("1", "initialize", None),
      Request("2", "initialized", None),
      Request("null", "tools/list", None),
      Request("4", "resources/list", None),
      Request("5", "tools/call", None),
      Request("6", "tools/call", Some([name |-> None, arguments |-> LogArguments])),
      Request("7", "tools/call", Some([name |-> Some("habit_log"),
                                       arguments |-> LogArguments])),
      Request("8", "tools/call", Some([name |-> Some("habit_delete"),
                                       arguments |-> LogArguments])) }

\* serde_json::from_str::<JsonRpcRequest>(line): Some(request), or None
\* for the Err; jsonrpc, id and method are required members
from_str_request(l) ==
    IF l.text # "object" \/ l.jsonrpc = None \/ l.id = None \/ l.method = None
    THEN None
    ELSE Some([id |-> unwrap(l.id), method |-> unwrap(l.method), params |-> l.params])

\* JsonRpcResponse::success and JsonRpcResponse::error
JsonRpcResponse_success(id, value) == [id |-> id, result |-> Some(value), error |-> None]
JsonRpcResponse_error(id, code) == [id |-> id, result |-> None, error |-> Some(code)]

\* ToolCallResult::success and ToolCallResult::error
ToolCallResult(is_error) == [value |-> "ToolCallResult", is_error |-> is_error]
JsonValue(text) == [value |-> text, is_error |-> FALSE]

\* Does handle_tools_call reach call_habit_log for this line?
calls_habit_log(l) ==
    /\ from_str_request(l) # None
    /\ unwrap(l.method) = "tools/call"
    /\ l.params # None
    /\ unwrap(l.params).name = Some("habit_log")

\* handle_tools_call; tool_response is the response of the tool it called
handle_tools_call(request, tool_response) ==
    IF request.params = None \/ unwrap(request.params).name = None
    THEN JsonRpcResponse_error(request.id, INVALID_PARAMS)
    ELSE IF unwrap(request.params).name = Some("habit_log")
    THEN JsonRpcResponse_success(request.id, ToolCallResult(~unwrap(tool_response).ok))
    ELSE \* "Unknown tool"
         JsonRpcResponse_success(request.id, ToolCallResult(TRUE))

\* handle_request
handle_request(request, tool_response) ==
    CASE request.method = "initialize" ->
            JsonRpcResponse_success(request.id, JsonValue("InitializeResult"))
      [] request.method = "initialized" ->
            JsonRpcResponse_success(request.id, JsonValue("null"))
      [] request.method = "tools/list" ->
            JsonRpcResponse_success(request.id, JsonValue("tools"))
      [] request.method = "tools/call" -> handle_tools_call(request, tool_response)
      [] OTHER -> JsonRpcResponse_error(request.id, METHOD_NOT_FOUND)

\* process_line: the responses to write, none or one
process_line(l, tool_response) ==
    IF l.text = "blank" THEN <<>>
    ELSE IF from_str_request(l) = None
    THEN <<JsonRpcResponse_error("null", PARSE_ERROR)>>
    ELSE <<handle_request(unwrap(from_str_request(l)), tool_response)>>

\* Writing the responses in front of what has been written
write_first(out, responses) == responses \o out

\* stdout.write_all(response_str), write_all(b"\n"), flush
write_all(out, responses) == out \o responses

\* McpServer::run: reader.read_line returns the next line
ReadLine ==
    /\ line = None
    /\ lines_read < Len(stdin)
    /\ lines_read' = lines_read + 1
    /\ line' = Some(stdin[lines_read + 1])
    /\ UNCHANGED <<storage_vars, invocations, today, habit, habit_entries, habit_streaks,
                   call, streak, response, habit_value, result, stdin, stdout,
                   initialized>>

\* McpServer::run: process_line on the line read, with the tool call it
\* makes, and the response written to stdout
ProcessLine ==
    /\ line # None
    /\ LET l == unwrap(line) IN
       /\ IF calls_habit_log(l)
          THEN /\ log_habit(unwrap(l.params).arguments)
               /\ stdout' = write_all(stdout, process_line(l, response'))
          ELSE /\ stdout' = write_all(stdout, process_line(l, None))
               /\ UNCHANGED <<response, habit_entries, habit_streaks>>
       /\ initialized' = (initialized \/ (from_str_request(l) # None
                                             /\ unwrap(l.method) = "initialized"))
    /\ line' = None
    /\ UNCHANGED <<storage_vars, invocations, today, habit, call, streak, habit_value,
                   result, stdin, lines_read>>

\* The server is started on a database with one habit; the client's lines
\* are on standard input.
InitServer ==
    /\ today = StartDay
    /\ habit = Some(Habit_from_existing(DefaultName, None, Health, Daily, None, None,
                                        today, TRUE))
    /\ habit_entries = EmptyBag
    /\ habit_streaks = None
    /\ call = None
    /\ streak = None
    /\ response = None
    /\ habit_value = None
    /\ result = None
    /\ invocations = <<>>
    /\ tables = SchemaV1 \cup {"schema_version"}
    /\ schema_version = {CURRENT_VERSION}
    /\ applied = 1
    /\ habits = <<>>
    /\ stdin \in UNION { [1..n -> Lines] : n \in 0..MaxLines }
    /\ lines_read = 0
    /\ line = None
    /\ stdout = <<>>
    /\ initialized = FALSE

NextServer ==
    \/ ReadLine
    \/ ProcessLine

SpecServer == InitServer /\ [][NextServer]_vars

(***************************************************************************)
(* Successive recomputations of one habit's streak: calculate_from_entries *)
(* is called on the habit's entries, and called again whenever an entry    *)
(* has been added on a date that had none, a day has passed, or both.      *)
(***************************************************************************)
\* The next call: the entries of the last call and those of `added` (no
\* date or one), as the storage returns them, newest first; `days` later
CalculateFromEntriesLater(added, days) ==
    /\ call # None
    /\ streak # None
    /\ today + days <= LastToday
    /\ \A date \in added :
           /\ ~has_entry(unwrap(call).entries, date)
           /\ validate_completed_at(date, today) = "Ok"
    /\ LET entries == sort_desc(unwrap(call).entries \o [i \in 1..Cardinality(added) |->
                                                             unwrap(added)])
       IN /\ call' = Some([unwrap(call) EXCEPT !.entries = entries,
                                               !.today = today + days])
          /\ streak' = Some(calculate_from_entries(entries, unwrap(call).frequency,
                                                   unwrap(call).created_at,
                                                   today + days))
    /\ today' = today + days
    /\ UNCHANGED <<storage_vars, server_vars, invocations, habit, habit_entries,
                   habit_streaks, response, habit_value, result>>

\* A habit created today, without entries, and the first call
InitRecalc ==
    /\ today = StartDay
    /\ habit = None
    /\ habit_entries = EmptyBag
    /\ habit_streaks = None
    /\ call \in { Some([entries |-> <<>>, frequency |-> f, created_at |-> today,
                        today |-> today]) : f \in Frequencies }
    /\ streak = None
    /\ response = None
    /\ habit_value = None
    /\ result = None
    /\ invocations = <<>>
    /\ OpenedStorage
    /\ NoServer

NextRecalc ==
    \/ CalculateFromEntries
    \/ \E added \in Optional(Days), days \in {0, 1} : CalculateFromEntriesLater(added, days)

SpecRecalc == InitRecalc /\ [][NextRecalc]_vars

(***************************************************************************)
(* C1: every Streak returned by calculate_from_entries has                 *)
(* longest_streak >= current_streak, and so has the streak row that        *)
(* log_habit stores, after any sequence of log operations.                 *)
(***************************************************************************)
C1_LongestAtLeastCurrent ==
    /\ \A s \in streak : s.longest_streak >= s.current_streak
    /\ \A row \in habit_streaks : row.longest_streak >= row.current_streak

\* The database run in which the returned Streak owes its longest_streak
\* to the backward walk, next to a row stored by two or more logs.
C1_Witness ==
    /\ streak # None
    /\ unwrap(streak).current_streak
         > calculate_longest_streak(unwrap(call).entries, unwrap(call).frequency)
    /\ habit_streaks # None
    /\ unwrap(habit_streaks).total_completions >= 2

(***************************************************************************)
(* Calendar notions the claims are stated in.                              *)
(***************************************************************************)
\* The Monday-to-Sunday week of day d, counted from the week of day 0
WeekOf(d) == d \div 7

\* Number of entries of the list in Monday-to-Sunday week w
EntriesInWeek(entries, w) ==
    Cardinality({ i \in 1..Len(entries) : WeekOf(entries[i]) = w })

\* Length of the run of weeks with at least t entries each that ends with
\* week w (t >= 1, so the run ends before the first entry at the latest)
RECURSIVE WeekRunEndingAt(_, _, _)
WeekRunEndingAt(entries, t, w) ==
    IF EntriesInWeek(entries, w) < t THEN 0
    ELSE 1 + WeekRunEndingAt(entries, t, w - 1)

SetMax(S) == IF S = {} THEN 0 ELSE CHOOSE m \in S : \A o \in S : m >= o

\* The longest run of calendar-consecutive qualifying weeks
LongestWeekRun(entries, t) ==
    SetMax({ WeekRunEndingAt(entries, t, WeekOf(entries[i])) : i \in 1..Len(entries) })

\* ISO week 52 of 2024 (2024-12-23 .. 2024-12-29) and ISO week 1 of 2025
\* (2024-12-30 .. 2025-01-05), as weeks counted from the week of day 0
LastWeekOf2024 == WeekOf(51 * 7)
FirstWeekOf2025 == WeekOf(52 * 7)

(***************************************************************************)
(* C2: for WeeklyTarget(t), when ISO week 52 of year Y and ISO week 1 of   *)
(* year Y+1 each hold at least t entries, the two weeks count as           *)
(* consecutive: longest_streak >= 2, also when the run is no longer part   *)
(* of the current streak.                                                  *)
(***************************************************************************)
C2_YearBoundaryWeeksConsecutive ==
    \A s \in streak :
        LET c == unwrap(call) IN
        ( /\ c.frequency.kind = "Weekly"
          /\ EntriesInWeek(c.entries, LastWeekOf2024) >= c.frequency.n
          /\ EntriesInWeek(c.entries, FirstWeekOf2025) >= c.frequency.n )
        => s.longest_streak >= 2

(***************************************************************************)
(* C3: for WeeklyTarget(t), longest_streak is the length of the longest    *)
(* run of calendar-consecutive Monday-to-Sunday weeks that each hold at    *)
(* least t entries; all entries of one such week fall in one bucket.       *)
(***************************************************************************)
C3_LongestIsLongestWeekRun ==
    \A s \in streak :
        LET c == unwrap(call) IN
        c.frequency.kind = "Weekly"
        => s.longest_streak = LongestWeekRun(c.entries, c.frequency.n)

(***************************************************************************)
(* C4: same-date entries count once: an added entry whose date already     *)
(* has an entry leaves current_streak and longest_streak as they were.     *)
(***************************************************************************)
C4_DuplicateDateChangesNothing ==
    \A s \in streak :
        LET c == unwrap(call) IN
        \A i \in 1..Len(c.entries) :
            LET again == calculate_from_entries(Append(c.entries, c.entries[i]),
                                                c.frequency, c.created_at, c.today)
            IN /\ again.current_streak = s.current_streak
               /\ again.longest_streak = s.longest_streak

(***************************************************************************)
(* Qualifying days of the per-day schedules, as the claims state them.     *)
(***************************************************************************)
PerDayKinds == {"Daily", "Weekdays", "Weekends", "Custom"}

\* The most recent qualifying day before d (every valid per-day schedule
\* has a qualifying day in any 7 consecutive days)
PreviousQualifying(frequency, d) ==
    CHOOSE q \in (d - 7)..(d - 1) :
        /\ is_scheduled_for_date(frequency, q)
        /\ \A o \in (q + 1)..(d - 1) : ~is_scheduled_for_date(frequency, o)

\* Number of consecutive qualifying days with an entry, counted backward
\* from qualifying day d over the days after `limit`
RECURSIVE RunEndingAt(_, _, _, _)
RunEndingAt(entries, frequency, d, limit) ==
    IF d <= limit \/ ~has_entry(entries, d) THEN 0
    ELSE 1 + RunEndingAt(entries, frequency, PreviousQualifying(frequency, d), limit)

\* The longest run of pattern-consecutive qualifying days with an entry
LongestQualifyingRun(entries, frequency) ==
    SetMax({ RunEndingAt(entries, frequency, entries[i], entries[i] - DayLoopLimit) :
               i \in { j \in 1..Len(entries) :
                         is_scheduled_for_date(frequency, entries[j]) } })

\* Where the backward walk of the current streak starts
WalkStart(entries, frequency, now) ==
    LET anchor == IF is_scheduled_for_date(frequency, now) THEN now
                  ELSE PreviousQualifying(frequency, now)
    IN IF anchor = now /\ ~has_entry(entries, now)
       THEN PreviousQualifying(frequency, now)
       ELSE anchor

(***************************************************************************)
(* C8: for Weekdays, Weekends and CustomDays, longest_streak is the length *)
(* of the longest run of pattern-consecutive qualifying days that each     *)
(* have an entry, whatever entries fall on non-qualifying days.            *)
(***************************************************************************)
C8_LongestIsLongestQualifyingRun ==
    \A s \in streak :
        LET c == unwrap(call) IN
        c.frequency.kind \in {"Weekdays", "Weekends", "Custom"}
        => s.longest_streak = LongestQualifyingRun(c.entries, c.frequency)

(***************************************************************************)
(* C5: for Daily, Weekdays, Weekends and CustomDays, current_streak is the *)
(* number of consecutive qualifying days with an entry, walking backward   *)
(* over at most 365 calendar days from the most recent qualifying day on   *)
(* or before today, or from the qualifying day before it when that day is  *)
(* today and today has no entry.                                           *)
(***************************************************************************)
C5_CurrentIsRunOfQualifyingDays ==
    \A s \in streak :
        LET c == unwrap(call)
            start == WalkStart(c.entries, c.frequency, c.today)
            dates == { c.entries[i] : i \in 1..Len(c.entries) }
        IN /\ c.frequency.kind \in PerDayKinds
              => s.current_streak
                   = RunEndingAt(c.entries, c.frequency, start, start - DayLoopLimit)
           /\ c.frequency = Daily /\ dates = {c.today, c.today - 1, c.today - 2}
              => s.current_streak = 3
           /\ c.frequency = Daily /\ dates = {c.today, c.today - 3}
              => s.current_streak = 1

\* Daily with entries on today, yesterday and the day before: 3
C5_WitnessThreeDays ==
    /\ streak # None
    /\ unwrap(call).frequency = Daily
    /\ \A k \in 0..2 : has_entry(unwrap(call).entries, unwrap(call).today - k)
    /\ unwrap(streak).current_streak = 3

(***************************************************************************)
(* C6: for WeeklyTarget(t), current_streak is the number of consecutive    *)
(* Monday-to-Sunday weeks, from the week of today backward over at most    *)
(* 52 weeks, that hold at least t entries each; the walk stops at the      *)
(* first week with fewer.  3 entries in the current week and 3 in the      *)
(* week before give 2 for WeeklyTarget(3).                                 *)
(***************************************************************************)
\* The k most recent weeks, the week of `now` first, all hold t entries
WeeksQualify(entries, t, now, k) ==
    \A j \in 0..(k - 1) : EntriesInWeek(entries, WeekOf(now) - j) >= t

C6_CurrentIsRunOfWeeks ==
    \A s \in streak :
        LET c == unwrap(call)
            t == c.frequency.n
        IN c.frequency.kind = "Weekly"
           => /\ s.current_streak \in 0..WeekLoopLimit
              /\ WeeksQualify(c.entries, t, c.today, s.current_streak)
              /\ \/ s.current_streak = WeekLoopLimit
                 \/ EntriesInWeek(c.entries, WeekOf(c.today) - s.current_streak) < t
              /\ ( /\ t = 3
                   /\ EntriesInWeek(c.entries, WeekOf(c.today)) = 3
                   /\ EntriesInWeek(c.entries, WeekOf(c.today) - 1) = 3
                   /\ Len(c.entries) = 6 )
                 => s.current_streak = 2

\* WeeklyTarget(3) with exactly 3 entries this week and 3 the week before
C6_WitnessTwoWeeks ==
    /\ streak # None
    /\ unwrap(call).frequency = Weekly(3)
    /\ EntriesInWeek(unwrap(call).entries, WeekOf(unwrap(call).today)) = 3
    /\ EntriesInWeek(unwrap(call).entries, WeekOf(unwrap(call).today) - 1) = 3
    /\ unwrap(streak).current_streak = 2

(***************************************************************************)
(* C7: for Interval(n) with no entry dated after today: when the latest    *)
(* entry is at most n days before today, current_streak is the number of   *)
(* dates latest, latest - n, latest - 2n, ... that have an entry one after *)
(* the other (at most 365 of them); otherwise it is 0.  Interval(3) with   *)
(* entries on day 0, 3 and 6 and today = day 6 gives 3.                    *)
(***************************************************************************)
\* Number of dates d, d - n, d - 2n, ... that consecutively have an entry
RECURSIVE ChainFrom(_, _, _, _)
ChainFrom(entries, n, d, steps) ==
    IF steps = 0 \/ ~has_entry(entries, d) THEN 0
    ELSE 1 + ChainFrom(entries, n, d - n, steps - 1)

C7_CurrentIsIntervalChain ==
    \A s \in streak :
        LET c == unwrap(call)
            n == c.frequency.n
            dates == { c.entries[i] : i \in 1..Len(c.entries) }
            latest == SetMax(dates)
        IN ( /\ c.frequency.kind = "Interval"
             /\ dates # {}
             /\ \A d \in dates : d <= c.today )
           => /\ s.current_streak
                   = IF c.today - latest <= n
                     THEN ChainFrom(c.entries, n, latest, DayLoopLimit)
                     ELSE 0
              /\ n = 3 /\ dates = {c.today, c.today - 3, c.today - 6}
                 => s.current_streak = 3

\* Interval(3), entries on day 0, 3 and 6, read on day 6
C7_WitnessThreeIntervals ==
    /\ streak # None
    /\ unwrap(call).frequency = Interval(3)
    /\ { unwrap(call).entries[i] : i \in 1..Len(unwrap(call).entries) }
         = { unwrap(call).today - 6, unwrap(call).today - 3, unwrap(call).today }
    /\ unwrap(streak).current_streak = 3

C10_EmptyEntriesGiveZeroStreak ==
    \A s \in streak :
        unwrap(call).entries = <<>>
        => /\ s.current_streak = 0
           /\ s.longest_streak = 0
           /\ s.last_completed = None
           /\ s.total_completions = 0
           /\ s.completion_rate = [num |-> 0, den |-> 1, ulps |-> 0]

\* A call with no entries for a habit created before today has returned
C10_WitnessEmptyCall ==
    /\ streak # None
    /\ unwrap(call).entries = <<>>
    /\ unwrap(call).created_at < unwrap(call).today
    /\ unwrap(call).frequency.kind = "Weekly"

(***************************************************************************)
(* C11: Frequency::validate rejects exactly Weekly(t) with t = 0 or t > 7, *)
(* Custom with no day or more than 7 days, and Interval(n) with n = 0 or   *)
(* n > 365; it accepts Daily, Weekdays, Weekends, every Weekly(1..7),      *)
(* every Custom of 1..7 days and every Interval(1..365).                   *)
(***************************************************************************)
\* The frequencies the claim calls valid.
ValidFrequency(f) ==
    \/ f.kind \in {"Daily", "Weekdays", "Weekends"}
    \/ f.kind = "Weekly" /\ f.n \in 1..7
    \/ f.kind = "Custom" /\ Len(f.days) \in 1..7
    \/ f.kind = "Interval" /\ f.n \in 1..365

C11_ValidateRejectsExactlyInvalid ==
    \A r \in result : r.op = "validate" =>
        LET f == unwrap(call).frequency
        IN /\ r.value \in {"Ok", "InvalidFrequency"}
           /\ (r.value = "Ok") <=> ValidFrequency(f)

\* An eight-day Custom is rejected.
C11_WitnessEightDaysRejected ==
    /\ result = Some([op |-> "validate", value |-> "InvalidFrequency"])
    /\ call # None
    /\ unwrap(call).frequency = Custom(WeekOfDays \o <<Mon>>)

(***************************************************************************)
(* C12: after any sequence of habit creations (Habit::new, create_habit)   *)
(* and updates (Habit::update, update_habit), successful or failed, the    *)
(* stored habit's frequency satisfies Frequency::validate, and so does the *)
(* frequency that AnalyticsEngine::calculate_habit_streak passes to        *)
(* calculate_from_entries.  The habit a caller holds satisfies it too.     *)
(***************************************************************************)
C12_StoredFrequencyIsValid ==
    /\ \A h \in habit : validate(h.frequency) = "Ok"
    /\ \A h \in habit_value : validate(h.frequency) = "Ok"
    /\ \A c \in call : validate(c.frequency) = "Ok"

\* The calculator is called for a habit stored with the largest interval,
\* next to a held habit with the largest weekly target.
C12_WitnessCalculatorCalled ==
    /\ habit # None
    /\ unwrap(habit).frequency = Interval(MaxIntervalDays)
    /\ habit_value # None
    /\ unwrap(habit_value).frequency = Weekly(MaxTimesPerWeek)
    /\ call # None
    /\ unwrap(call).frequency = Interval(MaxIntervalDays)

ClaimedExpected(frequency, days) ==
    CASE frequency.kind = "Weekly" -> [num |-> days * frequency.n, den |-> 7]
      [] frequency.kind = "Weekdays" -> [num |-> days * 5, den |-> 7]
      [] frequency.kind = "Weekends" -> [num |-> days * 2, den |-> 7]
      [] OTHER -> [num |-> days, den |-> 1]

\* Is the f64 rate below 1.0?
BelowOnePointZero(rate) == rate.num < rate.den \/ rate.ulps < 0

C16_RateIsCappedQuotient ==
    \A c \in call : \A s \in streak :
        LET days == (c.today - c.created_at) + 1
            expected == ClaimedExpected(c.frequency, days)
            total == s.total_completions
        IN days >= 1 =>
               /\ s.completion_rate.num * expected.num
                      = s.completion_rate.den * (IF total * expected.den < expected.num
                                                 THEN total * expected.den
                                                 ELSE expected.num)
               /\ s.completion_rate.ulps = 0
               /\ BelowOnePointZero(s.completion_rate)
                      <=> total * expected.den < expected.num

(***************************************************************************)
(* C17: total_completions equals the number of entries: the Streak that    *)
(* calculate_from_entries returns counts the entries of the list it was    *)
(* given, and after any sequence of log_habit calls, accepted or rejected, *)
(* the stored total_completions is the number of stored entries.           *)
(***************************************************************************)
C17_TotalCompletionsIsEntryCount ==
    /\ \A c \in call : \A s \in streak : s.total_completions = Len(c.entries)
    /\ get_streak(habit_streaks).total_completions = BagCardinality(habit_entries)

\* Two entries are stored and a third log_habit has just been rejected.
C17_WitnessRejectedAfterTwo ==
    /\ BagCardinality(habit_entries) = 2
    /\ habit_streaks # None
    /\ response = Error("log_habit", "Constraint")

(***************************************************************************)
(* C18: is_scheduled_for_date is true for every date under Daily, Weekly   *)
(* and Interval, true exactly from Monday to Friday under Weekdays, true   *)
(* exactly on Saturday and Sunday under Weekends, so that every date is    *)
(* scheduled under exactly one of the two, and true under Custom exactly   *)
(* when the weekday of the date is in the list.                            *)
(***************************************************************************)
C18_ScheduledDays ==
    \A c \in call : \A r \in result :
        r.op = "is_scheduled_for_date" =>
            LET f == c.frequency
                wd == weekday(c.date)
            IN /\ f.kind \in {"Daily", "Weekly", "Interval"} => r.value = TRUE
               /\ f.kind = "Weekdays" => (r.value <=> wd \in {Mon, Tue, Wed, Thu, Fri})
               /\ f.kind = "Weekends" => (r.value <=> wd \in {Sat, Sun})
               /\ f.kind = "Custom" => (r.value <=> \E i \in 1..Len(f.days) : f.days[i] = wd)
               /\ is_scheduled_for_date(Weekdays, c.date)
                      # is_scheduled_for_date(Weekends, c.date)

\* Saturday 2024-12-28 is not scheduled under Custom([Fri, Sun]).
C18_WitnessSaturdayNotInList ==
    /\ call # None
    /\ unwrap(call).frequency = Custom(<<Fri, Sun>>)
    /\ unwrap(call).date = FirstDay + 1
    /\ weekday(unwrap(call).date) = Sat
    /\ result = Some([op |-> "is_scheduled_for_date", value |-> FALSE])

(***************************************************************************)
(* C19: after every successful log_habit the stored current_streak and     *)
(* longest_streak, and the current_streak returned to the caller, are the  *)
(* values Streak::calculate_from_entries computes from the stored entries  *)
(* of the habit.                                                           *)
(***************************************************************************)
C19_StoredStreakIsCalculated ==
    \A r \in response : \A h \in habit : \A row \in habit_streaks :
        (r.op = "log_habit" /\ r.ok) =>
            LET calculated == calculate_from_entries(get_entries_for_habit(habit_entries),
                                                     h.frequency, h.created_at, today)
            IN /\ row.current_streak = calculated.current_streak
               /\ row.longest_streak = calculated.longest_streak
               /\ r.current_streak = Some(calculated.current_streak)

(***************************************************************************)
(* C20: whenever log_habit returns an error, for a habit id that is empty, *)
(* malformed or unknown, a malformed date, a date in the future or more    *)
(* than 365 days past, an intensity outside 1..10, a value or notes out of *)
(* range, or an entry already stored for the date, the stored entries and  *)
(* the stored streak are as they were before the call; and at all times    *)
(* the habit has at most one entry for each completed date.                *)
(***************************************************************************)
C20_ErrorsChangeNothing ==
    /\ [][\A r \in response' :
              (r.op = "log_habit" /\ ~r.ok)
                  => (habit_entries' = habit_entries /\ habit_streaks' = habit_streaks)]_vars
    /\ [](\A d \in BagToSet(habit_entries) : CopiesIn(d, habit_entries) = 1)

\* Three entries are stored and a log for one of their dates is rejected.
C20_WitnessDuplicateRejected ==
    /\ BagCardinality(habit_entries) = 3
    /\ habit_streaks # None
    /\ unwrap(habit_streaks).total_completions = 3
    /\ today \in BagToSet(habit_entries)
    /\ response = Error("log_habit", "Constraint")

(***************************************************************************)
(* C21: HabitEntry::new rejects a completed_at after today and one more    *)
(* than 365 days before today, and accepts every date from today - 365 to  *)
(* today; so every entry that log_habit stores is, on the day it is        *)
(* logged, dated within the last 365 days and not in the future.           *)
(***************************************************************************)
C21_StoredDatesWithinOneYear ==
    /\ [](\A c \in call : \A r \in result :
              r.op = "HabitEntry::new" =>
                  /\ (c.completed_at > today \/ c.completed_at < today - 365)
                         => r.value = "InvalidDate"
                  /\ (today - 365 <= c.completed_at /\ c.completed_at <= today)
                         => r.value # "InvalidDate"
                  /\ (today - 365 <= c.completed_at /\ c.completed_at <= today
                          /\ c.value = None)
                         => r.value = "Ok")
    /\ [][\A d \in DOMAIN habit_entries' :
              (d \notin DOMAIN habit_entries \/ habit_entries'[d] # habit_entries[d])
                  => (today - 365 <= d /\ d <= today)]_vars

\* An entry dated exactly 365 days back was stored on the first day; a day
\* later a log for the same date has been rejected as too old.
C21_WitnessOneYearBack ==
    /\ today = StartDay + 1
    /\ (StartDay - 365) \in DOMAIN habit_entries
    /\ response = Error("log_habit", "InvalidDate")

(***************************************************************************)
(* C22: Habit::update validates every supplied value before it applies     *)
(* any: when it returns an error (a supplied name, description or          *)
(* frequency is invalid, or the resulting target and unit are), no field   *)
(* of the habit has changed; when it returns Ok, every supplied value is   *)
(* written and the other fields are as they were.  update_habit that       *)
(* returns an error leaves the stored row as it was.                       *)
(***************************************************************************)
C22_UpdateIsAllOrNothing ==
    /\ [](\A c \in call : \A r \in response : \A h \in habit_value :
              r.op = "Habit::update" =>
                  /\ r.ok <=>
                        /\ \A n \in c.name : validate_name(n) = "Ok"
                        /\ \A d \in c.description : validate_description(d) = "Ok"
                        /\ \A f \in c.frequency : validate(f) = "Ok"
                        /\ validate_target_and_unit(
                               IF c.target_value = None THEN c.self.target_value
                               ELSE unwrap(c.target_value),
                               IF c.unit = None THEN c.self.unit ELSE unwrap(c.unit)) = "Ok"
                  /\ ~r.ok => h = c.self
                  /\ r.ok =>
                        /\ h.name = (IF c.name = None THEN c.self.name ELSE unwrap(c.name))
                        /\ h.description = (IF c.description = None THEN c.self.description
                                            ELSE unwrap(c.description))
                        /\ h.frequency = (IF c.frequency = None THEN c.self.frequency
                                          ELSE unwrap(c.frequency))
                        /\ h.target_value = (IF c.target_value = None
                                             THEN c.self.target_value
                                             ELSE unwrap(c.target_value))
                        /\ h.unit = (IF c.unit = None THEN c.self.unit ELSE unwrap(c.unit))
                        /\ h.is_active = (IF c.is_active = None THEN c.self.is_active
                                          ELSE unwrap(c.is_active))
                        /\ h.category = c.self.category
                        /\ h.created_at = c.self.created_at)
    /\ [][\A r \in response' : (r.op = "update_habit" /\ ~r.ok) => habit' = habit]_vars

\* An update with a new valid name, a valid description, a valid frequency
\* and is_active = false, and a target of 0, has been rejected, and the
\* habit is the active one it was.
C22_WitnessRejectedAfterValidValues ==
    /\ response = Error("Habit::update", "InvalidValue")
    /\ call # None
    /\ unwrap(call).name = Some(OtherName)
    /\ unwrap(call).description = Some(Some(LongestDescription))
    /\ unwrap(call).frequency = Some(Weekly(MaxTimesPerWeek))
    /\ unwrap(call).target_value = Some(Some(0))
    /\ unwrap(call).is_active = Some(FALSE)
    /\ habit_value # None
    /\ unwrap(habit_value).name = DefaultName
    /\ unwrap(habit_value).is_active

(***************************************************************************)
(* C23: list_habits with a category filter returns exactly the stored      *)
(* habits whose category equals the requested one, restricted to the       *)
(* active ones when active_only is set; a habit of another category is     *)
(* never returned.                                                         *)
(***************************************************************************)
C23_ListIsFilteredByCategory ==
    \A c \in call : \A r \in result :
        (r.op = "list_habits" /\ c.category # None) =>
            { r.value[i].id : i \in DOMAIN r.value } =
                { id \in DOMAIN habits :
                      /\ habits[id].category = unwrap(c.category)
                      /\ c.active_only => habits[id].is_active }

(***************************************************************************)
(* C24: delete_habit is a soft delete.  A successful call changes nothing  *)
(* but is_active of the habit's row, which becomes false: the row is still *)
(* returned by get_habit, the entries and the streak row are as they were, *)
(* and list_habits leaves the habit out with active_only = true and        *)
(* returns it with active_only = false.  For an id with no row the call    *)
(* returns HabitNotFound and changes nothing.                              *)
(***************************************************************************)
C24_DeleteIsSoft ==
    /\ [][\A r \in response' : r.op = "delete_habit" =>
              /\ UNCHANGED <<habit_entries, habit_streaks, tables, schema_version>>
              /\ DOMAIN habits' = DOMAIN habits
              /\ \A c \in call' :
                     /\ r.ok <=> c.habit_id \in DOMAIN habits
                     /\ ~r.ok => r.error = "HabitNotFound" /\ habits' = habits
                     /\ r.ok =>
                           /\ ~habits'[c.habit_id].is_active
                           /\ \A id \in DOMAIN habits \ {c.habit_id} :
                                  habits'[id] = habits[id]
                           /\ [habits'[c.habit_id] EXCEPT !.is_active = TRUE] =
                                  [habits[c.habit_id] EXCEPT !.is_active = TRUE]]_vars
    /\ [](\A c \in call : \A r \in response :
              /\ r.op = "get_habit" => (r.ok <=> c.habit_id \in DOMAIN habits)
              /\ (r.op = "get_habit" /\ r.ok) => habit_value = Some(habits[c.habit_id])
              /\ r.op = "list_habits" =>
                    \A id \in DOMAIN habits : ~habits[id].is_active =>
                        (c.active_only <=>
                             id \notin { unwrap(result).value[i].id :
                                             i \in DOMAIN unwrap(result).value }))

\* The deleted habit "h1", with an entry and a streak row stored, is listed
\* with active_only = false next to the active "h2".
C24_WitnessDeletedHabitListed ==
    /\ "h1" \in DOMAIN habits
    /\ ~habits["h1"].is_active
    /\ habit_entries # EmptyBag
    /\ habit_streaks # None
    /\ call = Some([category |-> None, active_only |-> FALSE])
    /\ result # None
    /\ { unwrap(result).value[i].id : i \in DOMAIN unwrap(result).value } = {"h1", "h2"}
    /\ habits["h2"].is_active

(***************************************************************************)
(* C26: initialize_database is idempotent.  Run on a database it has       *)
(* already initialized, it succeeds, runs no migration again and changes   *)
(* nothing; after every run the three tables exist and schema_version      *)
(* holds exactly one value, CURRENT_VERSION.                               *)
(***************************************************************************)
C26_InitializeIsIdempotent ==
    /\ [](applied <= 1)
    /\ [](\A r \in response : r.op = "initialize_database" =>
              /\ r.ok
              /\ {"habits", "habit_entries", "habit_streaks"} \subseteq tables
              /\ schema_version = {1})
    /\ [][\A r \in response' :
              (r.op = "initialize_database" /\ schema_version # {}) =>
                  UNCHANGED <<storage_vars, habit_entries, habit_streaks>>]_vars

\* The database has been opened again with two habits, an entry and a
\* streak row in it.
C26_WitnessReopenedWithData ==
    /\ response = Ok("initialize_database")
    /\ Cardinality(DOMAIN habits) = 2
    /\ habit_entries # EmptyBag
    /\ habit_streaks # None
    /\ applied = 1

(***************************************************************************)
(* C25: the MCP server answers strictly in input order.  At every moment   *)
(* the responses written are the responses to the lines processed so far,  *)
(* one for each line that is not blank and none for a blank one, in the    *)
(* order of the lines, and all of them are written when the next line is   *)
(* read.  Each response carries the id of its request; a line that is not  *)
(* a valid JSON-RPC request is answered with id null and code -32700, an   *)
(* unknown method with code -32601.                                        *)
(***************************************************************************)
C25_ResponsesInInputOrder ==
    LET processed == SubSeq(stdin, 1, lines_read - Cardinality(line))
        NotBlank(l) == l.text # "blank"
        answered == SelectSeq(processed, NotBlank)
        Valid(l) == l.text = "object" /\ l.jsonrpc # None /\ l.id # None /\ l.method # None
    IN /\ Len(stdout) = Len(answered)
       /\ \A k \in DOMAIN stdout :
              /\ Valid(answered[k]) => stdout[k].id = unwrap(answered[k].id)
              /\ ~Valid(answered[k]) =>
                     stdout[k].id = "null" /\ stdout[k].error = Some(0 - 32700)
              /\ (Valid(answered[k])
                      /\ unwrap(answered[k].method) \notin
                             {"initialize", "initialized", "tools/list", "tools/call"})
                     => stdout[k].error = Some(0 - 32601)
              /\ (stdout[k].result = None) # (stdout[k].error = None)

\* A habit_log request, a blank line and a line that is not JSON have been
\* processed: two responses are written, the first with the id of the
\* request, the second with id null, and the entry is stored.
C25_WitnessBlankBetweenRequests ==
    /\ Len(stdin) = 3
    /\ stdin[1].id = Some("7")
    /\ stdin[2] = BlankLine
    /\ stdin[3] = NotJson
    /\ lines_read = 3
    /\ line = None
    /\ Len(stdout) = 2
    /\ stdout[1].id = "7"
    /\ stdout[2].id = "null"
    /\ habit_entries # EmptyBag

(***************************************************************************)
(* C27: after any sequence of successful log_habit calls, with the dates   *)
(* logged in any order, the stored last_completed is the latest            *)
(* completed_at among the habit's stored entries, the value that           *)
(* calculate_from_entries gives for them.                                  *)
(***************************************************************************)
C27_LastCompletedIsLatestEntry ==
    \A row \in habit_streaks :
        /\ habit_entries # EmptyBag
        /\ \A latest \in BagToSet(habit_entries) :
               (\A d \in BagToSet(habit_entries) : d <= latest)
                   => row.last_completed = Some(latest)
        /\ row.last_completed =
               calculate_from_entries(get_entries_for_habit(habit_entries),
                                      unwrap(habit).frequency, unwrap(habit).created_at,
                                      today).last_completed

(***************************************************************************)
(* C28: longest_streak is the best streak ever achieved: from one          *)
(* recomputation of a habit's streak by calculate_from_entries to the      *)
(* next, with entries added on dates that had none and today advanced in   *)
(* between, longest_streak never decreases, whatever the schedule.         *)
(***************************************************************************)
C28_LongestStreakNeverDecreases ==
    [][\A old \in streak : \A new \in streak' :
           new.longest_streak >= old.longest_streak]_vars

====
